---- MODULE Spec2Model ----
(***************************************************************************)
(* State-machine model of the flowchart-to-Pascal translator:              *)
(* backend/lexer.py (PlantUMLLexer), backend/parser.py                     *)
(* (PlantUMLSyntaxAnalyzer), backend/sema.py (SymbolTable,                 *)
(* SemanticAnalyzer), backend/code_generator.py (PascalCodeGenerator) and  *)
(* the generate-pascal pipeline of backend/app.py.                         *)
(*                                                                         *)
(* Texts are sequences of one-character strings.  The Cyrillic letters of  *)
(* the input/output markers are written "Cyr_VE", "cyr_ve", "cyr_yeru",    *)
(* "cyr_o", "cyr_de"; the end-of-input sentinel '\0' is written "NUL".     *)
(***************************************************************************)
EXTENDS Integers, Sequences, FiniteSets, TLC

VARIABLES pc, lexer, parser, sema, gen, ran

vars == <<pc, lexer, parser, sema, gen, ran>>

(***************************************************************************)
(* Characters and texts (Python str methods used by the code)              *)
(***************************************************************************)
NUL == "NUL"

AsciiLower == {"a","b","c","d","e","f","g","h","i","j","k","l","m",
               "n","o","p","q","r","s","t","u","v","w","x","y","z"}

AsciiUpper == {"A","B","C","D","E","F","G","H","I","J","K","L","M",
               "N","O","P","Q","R","S","T","U","V","W","X","Y","Z"}

Digits == {"0","1","2","3","4","5","6","7","8","9"}

CyrLetters == {"Cyr_VE", "cyr_ve", "cyr_yeru", "cyr_o", "cyr_de"}

Whitespace == {" ", "\n", "\t"}

UpperSeq == <<"A","B","C","D","E","F","G","H","I","J","K","L","M",
              "N","O","P","Q","R","S","T","U","V","W","X","Y","Z","Cyr_VE">>

LowerSeq == <<"a","b","c","d","e","f","g","h","i","j","k","l","m",
              "n","o","p","q","r","s","t","u","v","w","x","y","z","cyr_ve">>

\* str.isspace, str.isalpha, str.isalnum on one character
IsSpace(c) == c \in Whitespace

IsAlpha(c) == c \in (AsciiLower \cup AsciiUpper \cup CyrLetters)

IsAlnum(c) == IsAlpha(c) \/ c \in Digits

\* str.lower / str.upper
LowerChar(c) ==
    IF \E i \in 1..Len(UpperSeq) : UpperSeq[i] = c
    THEN LowerSeq[CHOOSE i \in 1..Len(UpperSeq) : UpperSeq[i] = c]
    ELSE c

UpperChar(c) ==
    IF \E i \in 1..Len(LowerSeq) : LowerSeq[i] = c
    THEN UpperSeq[CHOOSE i \in 1..Len(LowerSeq) : LowerSeq[i] = c]
    ELSE c

Lower(s) == [i \in 1..Len(s) |-> LowerChar(s[i])]

Upper(s) == [i \in 1..Len(s) |-> UpperChar(s[i])]

\* s[a:b] with 1-based inclusive bounds; empty when a > b
Slice(s, a, b) == IF a > b THEN <<>> ELSE SubSeq(s, a, b)

\* str.rstrip / str.lstrip / str.strip
RECURSIVE Rstrip(_)
Rstrip(s) ==
    IF s # <<>> /\ IsSpace(s[Len(s)]) THEN Rstrip(Slice(s, 1, Len(s) - 1)) ELSE s

RECURSIVE Lstrip(_)
Lstrip(s) ==
    IF s # <<>> /\ IsSpace(s[1]) THEN Lstrip(Tail(s)) ELSE s

Strip(s) == Lstrip(Rstrip(s))

\* str.startswith / str.endswith
StartsWith(s, p) == Len(s) >= Len(p) /\ Slice(s, 1, Len(p)) = p

EndsWith(s, p) == Len(s) >= Len(p) /\ Slice(s, Len(s) - Len(p) + 1, Len(s)) = p

\* concatenation of a sequence of texts
RECURSIVE Concat(_)
Concat(ss) == IF ss = <<>> THEN <<>> ELSE Head(ss) \o Concat(Tail(ss))

\* all sequences over S of length at most n
SeqsUpTo(S, n) == UNION {[1..k -> S] : k \in 0..n}

(***************************************************************************)
(* Scanner: backend/lexer.py, class PlantUMLLexer                          *)
(***************************************************************************)
\* self.keywords
KeywordTable ==
    << <<<<"@", "s", "t", "a", "r", "t", "u", "m", "l">>, 1>>, <<<<"s", "t", "a", "r", "t">>, 2>>, <<<<"s", "t", "o", "p">>, 3>>, <<<<"i", "f">>, 4>>,
       <<<<"t", "h", "e", "n">>, 5>>, <<<<"e", "l", "s", "e">>, 6>>, <<<<"e", "n", "d", "i", "f">>, 7>>, <<<<"w", "h", "i", "l", "e">>, 8>>,
       <<<<"i", "s">>, 9>>, <<<<"e", "n", "d", "w", "h", "i", "l", "e">>, 10>>, <<<<"r", "e", "p", "e", "a", "t">>, 11>>,
       <<<<"r", "e", "p", "e", "a", "t", "w", "h", "i", "l", "e">>, 12>>, <<<<"@", "e", "n", "d", "u", "m", "l">>, 13>> >>

IsKeyword(w) == \E i \in 1..Len(KeywordTable) : KeywordTable[i][1] = w

KeywordCode(w) ==
    KeywordTable[CHOOSE i \in 1..Len(KeywordTable) : KeywordTable[i][1] = w][2]

\* self.delimiters_ops
DelimCode(c) ==
    CASE c = "(" -> 1 [] c = ")" -> 2 [] c = ";" -> 3 [] c = ":" -> 4

\* token classes of the lexeme table
ClsKeyword == 1
ClsDelim == 2
ClsAction == 4
ClsCond == 5

\* characters that continue a word: isalnum() or one of '@', '_', '-'
IsWordChar(c) == IsAlnum(c) \/ c \in {"@", "_", "-"}

\* characters at which the skip of error() stops
ErrorStop == {"(", ")", ";", ":", "@"}

\* PlantUMLLexer.__init__
NewLexer(source_code) ==
    LET src == Rstrip(source_code) \o <<NUL>> IN
    [ source        |-> src,
      position      |-> 0,
      current_char  |-> src[1],
      identifiers   |-> <<>>,
      constants     |-> <<>>,
      id_counter    |-> 1,
      const_counter |-> 1,
      lex_table     |-> <<>>,
      line_num      |-> 1,
      char_pos      |-> 0,
      errors        |-> <<>> ]

\* self.source[i] for a 0-based index i (the caller guards i < len)
CharAt(L, i) == L.source[i + 1]

\* PlantUMLLexer.advance
Advance(L) ==
    [L EXCEPT !.line_num = IF L.current_char = "\n" THEN @ + 1 ELSE @,
              !.char_pos = IF L.current_char = "\n" THEN 0 ELSE @ + 1,
              !.position = @ + 1,
              !.current_char = IF L.position + 1 >= Len(L.source)
                               THEN NUL
                               ELSE CharAt(L, L.position + 1)]

\* PlantUMLLexer.skip_whitespace
RECURSIVE SkipWhitespace(_)
SkipWhitespace(L) ==
    IF L.current_char # NUL /\ IsSpace(L.current_char)
    THEN SkipWhitespace(Advance(L))
    ELSE L

\* PlantUMLLexer.make_token (line and pos are always passed by scan)
MakeToken(L, token_class, token_value, token_text, line, pos) ==
    [L EXCEPT !.lex_table = Append(@, [class |-> token_class,
                                       value |-> token_value,
                                       text  |-> token_text,
                                       line  |-> line,
                                       pos   |-> pos])]

\* the skip loop of PlantUMLLexer.error
RECURSIVE ErrorSkip(_)
ErrorSkip(L) ==
    IF L.current_char # NUL /\ ~IsSpace(L.current_char)
       /\ L.current_char \notin ErrorStop
    THEN ErrorSkip(Advance(L))
    ELSE L

\* PlantUMLLexer.error: record the diagnostic at the current line/pos, then skip
Error(L, message) ==
    ErrorSkip([L EXCEPT !.errors = Append(@, [line    |-> L.line_num,
                                              pos     |-> L.char_pos,
                                              message |-> message])])

\* the word loops of scan: collect while isalnum() or '@', '_', '-'
RECURSIVE CollectWord(_, _)
CollectWord(L, buffer) ==
    IF IsWordChar(L.current_char)
    THEN CollectWord(Advance(L), Append(buffer, L.current_char))
    ELSE [lex |-> L, buffer |-> buffer]

\* a lookahead that takes any word for 'while' (the body of PeekWord is
\* replaced by this one to see what the properties of the lookahead catch)
PeekWord_AnyWord(L, temp_pos, temp_buffer) == <<"w", "h", "i", "l", "e">>

\* the lookahead loop of scan (temp_buffer, temp_pos, temp_char): reads the
\* source from temp_pos without moving the scanner
RECURSIVE PeekWord(_, _, _)
PeekWord(L, temp_pos, temp_buffer) ==
    IF temp_pos < Len(L.source) /\ IsWordChar(CharAt(L, temp_pos))
    THEN PeekWord(L, temp_pos + 1, Append(temp_buffer, CharAt(L, temp_pos)))
    ELSE temp_buffer

\* the payload loops of scan: collect up to (not including) the terminator
RECURSIVE CollectUntil(_, _, _)
CollectUntil(L, stop, buffer) ==
    IF L.current_char # NUL /\ L.current_char # stop
    THEN CollectUntil(Advance(L), stop, Append(buffer, L.current_char))
    ELSE [lex |-> L, buffer |-> buffer]

\* a lookup that never finds the text (the body of InternHas is replaced by
\* this one to see what the properties of interning catch)
InternHas_Never(table, content) == FALSE

\* lookup in an intern dictionary kept as a sequence of <<text, id>> in
\* insertion order
InternHas(table, content) == \E i \in 1..Len(table) : table[i][1] = content

InternId(table, content) ==
    table[CHOOSE i \in 1..Len(table) : table[i][1] = content][2]

\* scan, branch "isalpha() or '@'": keyword, fused 'repeat while', or error
ScanWord(L) ==
    LET start_pos  == L.char_pos
        start_line == L.line_num
        c          == CollectWord(L, <<>>)
        L1         == c.lex
        word       == c.buffer
        lookahead  == Lower(word) = <<"r", "e", "p", "e", "a", "t">> /\ IsSpace(L1.current_char)
        L2         == IF lookahead THEN SkipWhitespace(L1) ELSE L1
        fused      == lookahead /\ IsAlpha(L2.current_char)
                      /\ Lower(PeekWord(L2, L2.position, <<>>)) = <<"w", "h", "i", "l", "e">>
    IN  IF fused
        THEN \* position and current_char are restored, line_num and char_pos
             \* keep the values the first skip_whitespace left
             LET L3 == [L2 EXCEPT !.position = L1.position,
                                  !.current_char = CharAt(L1, L1.position)]
                 L4 == SkipWhitespace(L3)
                 L5 == CollectWord(L4, <<>>).lex
             IN  MakeToken(L5, ClsKeyword, KeywordCode(<<"r", "e", "p", "e", "a", "t", "w", "h", "i", "l", "e">>),
                           <<"r", "e", "p", "e", "a", "t", " ", "w", "h", "i", "l", "e">>, start_line, start_pos)
        ELSE IF IsKeyword(Lower(word))
             THEN MakeToken(L2, ClsKeyword, KeywordCode(Lower(word)), word,
                            start_line, start_pos)
             ELSE Error(L2, <<"unknown keyword", word>>)

\* scan, branch ':' : delimiter, interned action payload, ';'
ScanAction(L) ==
    LET L0 == Advance(MakeToken(L, ClsDelim, DelimCode(":"), <<":">>,
                                L.line_num, L.char_pos))
        c  == CollectUntil(L0, ";", <<>>)
        L1 == c.lex
        content == Strip(c.buffer)
        known   == InternHas(L1.identifiers, content)
        id_num  == IF known THEN InternId(L1.identifiers, content)
                   ELSE L1.id_counter
        L2 == IF content = <<>> THEN L1
              ELSE MakeToken(
                     IF known THEN L1
                     ELSE [L1 EXCEPT
                             !.identifiers = Append(@, <<content, id_num>>),
                             !.id_counter = @ + 1],
                     ClsAction, id_num, content, L0.line_num, L0.char_pos)
    IN  IF L2.current_char = ";"
        THEN Advance(MakeToken(L2, ClsDelim, DelimCode(";"), <<";">>,
                               L2.line_num, L2.char_pos))
        ELSE Error(L2, <<"expected ';' after action">>)

\* scan, branch '(' : delimiter, interned condition/label payload, ')'
ScanCond(L) ==
    LET L0 == Advance(MakeToken(L, ClsDelim, DelimCode("("), <<"(">>,
                                L.line_num, L.char_pos))
        c  == CollectUntil(L0, ")", <<>>)
        L1 == c.lex
        content == Strip(c.buffer)
        known   == InternHas(L1.constants, content)
        const_num == IF known THEN InternId(L1.constants, content)
                     ELSE L1.const_counter
        L2 == IF content = <<>> THEN L1
              ELSE MakeToken(
                     IF known THEN L1
                     ELSE [L1 EXCEPT
                             !.constants = Append(@, <<content, const_num>>),
                             !.const_counter = @ + 1],
                     ClsCond, const_num, content, L0.line_num, L0.char_pos)
    IN  IF L2.current_char = ")"
        THEN Advance(MakeToken(L2, ClsDelim, DelimCode(")"), <<")">>,
                               L2.line_num, L2.char_pos))
        ELSE Error(L2, <<"expected ')' after condition">>)

\* scan, branch ';' : a standalone delimiter
ScanSemicolon(L) ==
    Advance(MakeToken(L, ClsDelim, DelimCode(";"), <<";">>, L.line_num, L.char_pos))

\* an else branch that leaves the position to the skip of error() alone
ScanUnexpected_NoAdvance(L) ==
    Error(L, <<"unexpected character", <<L.current_char>> >>)

\* scan, branch else: error() and its skip, then one more advance()
ScanUnexpected(L) ==
    Advance(Error(L, <<"unexpected character", <<L.current_char>> >>))

\* one iteration of the main loop of scan (entered with current_char # NUL)
ScanIteration(L) ==
    LET L1 == SkipWhitespace(L) IN
    IF L1.current_char = NUL THEN L1
    ELSE IF IsAlpha(L1.current_char) \/ L1.current_char = "@" THEN ScanWord(L1)
    ELSE IF L1.current_char = ":" THEN ScanAction(L1)
    ELSE IF L1.current_char = "(" THEN ScanCond(L1)
    ELSE IF L1.current_char = ";" THEN ScanSemicolon(L1)
    ELSE ScanUnexpected(L1)

\* the value scan returns
LexerSuccess(L) == Len(L.errors) = 0

(***************************************************************************)
(* Parser: backend/parser.py, classes Node and PlantUMLSyntaxAnalyzer.     *)
(* The recursive descent is run on an explicit stack: one frame per rule   *)
(* invocation that has reached its statement loop.                         *)
(***************************************************************************)
\* Python None where a text is expected (Node.value)
NoneText == <<"None">>

\* Node.__init__ (line and pos default to 0)
Node(node_type, value, line, pos) ==
    [type |-> node_type, value |-> value, children |-> <<>>,
     line |-> line, pos |-> pos]

\* Python None where a node is expected (self.root = None, a rule returning None)
NoneNode == Node("None", NoneText, 0, 0)

\* Node.add_child
AddChild(node, child) ==
    IF child = NoneNode THEN node
    ELSE [node EXCEPT !.children = Append(@, child)]

\* self.lex_table is the scanner's lexeme list
Toks == lexer.lex_table

\* PlantUMLSyntaxAnalyzer.__init__
\* (raised: an exception has left parse(); calls: statement rules entered)
NewParser ==
    [position |-> 0, errors |-> <<>>, root |-> NoneNode, stack |-> <<>>,
     raised |-> FALSE, calls |-> 0]

\* PlantUMLSyntaxAnalyzer.current_token: is there one, and which
HasToken(P) == P.position < Len(Toks)

CurrentToken(P) == Toks[P.position + 1]

\* PlantUMLSyntaxAnalyzer.next_token
NextToken(P) == IF HasToken(P) THEN [P EXCEPT !.position = @ + 1] ELSE P

\* PlantUMLSyntaxAnalyzer.match with a class only, and with class and value
MatchClass(P, token_class) ==
    HasToken(P) /\ CurrentToken(P).class = token_class

Match(P, token_class, token_value) ==
    MatchClass(P, token_class) /\ CurrentToken(P).value = token_value

\* the diagnostics of the parser.  fmt is the form of the position prefix of
\* the message: "pos" is "(line,pos)", "eof" is "(конец файла)", "spaced" is
\* "(line, pos)" and "EOF" is "(EOF, 0)" as written by the content checks
ParseError(P, fmt, message) ==
    [P EXCEPT !.errors = Append(@,
        [fmt     |-> fmt,
         line    |-> IF HasToken(P) THEN CurrentToken(P).line ELSE 0,
         pos     |-> IF HasToken(P) THEN CurrentToken(P).pos ELSE 0,
         message |-> message])]

\* PlantUMLSyntaxAnalyzer.expect, always called with a class and a value
Expect(P, token_class, token_value, message) ==
    IF ~HasToken(P)
    THEN [ok |-> FALSE, P |-> ParseError(P, "eof", message)]
    ELSE IF CurrentToken(P).class # token_class
            \/ CurrentToken(P).value # token_value
    THEN [ok |-> FALSE, P |-> ParseError(P, "pos", message)]
    ELSE [ok |-> TRUE, P |-> NextToken(P)]

\* One step of a rule body: a terminal passed to expect, or a payload token
\* (classes 4 and 5) checked inline and turned into a child node
TokItem(token_class, token_value, message) ==
    [kind |-> "tok", class |-> token_class, value |-> token_value,
     type |-> "", message |-> message]

ContentItem(token_class, node_type, message) ==
    [kind |-> "content", class |-> token_class, value |-> 0,
     type |-> node_type, message |-> message]

\* the straight-line part of a rule: items are taken in order and the first
\* mismatch records its diagnostic and ends the rule with the node built so far
RECURSIVE RunItems(_, _, _)
RunItems(P, node, items) ==
    IF items = <<>> THEN [ok |-> TRUE, P |-> P, node |-> node]
    ELSE LET it == Head(items) IN
         IF it.kind = "tok"
         THEN LET e == Expect(P, it.class, it.value, it.message) IN
              IF e.ok THEN RunItems(e.P, node, Tail(items))
              ELSE [ok |-> FALSE, P |-> e.P, node |-> node]
         ELSE IF MatchClass(P, it.class)
              THEN RunItems(NextToken(P),
                            AddChild(node, Node(it.type, CurrentToken(P).text,
                                                CurrentToken(P).line,
                                                CurrentToken(P).pos)),
                            Tail(items))
              ELSE [ok |-> FALSE,
                    P  |-> ParseError(P, IF HasToken(P) THEN "spaced" ELSE "EOF",
                                      it.message),
                    node |-> node]

\* PlantUMLSyntaxAnalyzer.parse_branch_label: the label node, or None
ParseBranchLabel(P) ==
    LET open == Expect(P, ClsDelim, 1, "expected '(' before branch label") IN
    IF ~open.ok THEN [ok |-> FALSE, P |-> open.P, node |-> NoneNode]
    ELSE IF ~MatchClass(open.P, ClsCond)
    THEN LET P1 == ParseError(open.P,
                              IF HasToken(open.P) THEN "spaced" ELSE "EOF",
                              "expected branch label after '('")
         IN  [ok |-> FALSE,
              P  |-> IF Match(P1, ClsDelim, 2) THEN NextToken(P1) ELSE P1,
              node |-> NoneNode]
    ELSE LET t     == CurrentToken(open.P)
             close == Expect(NextToken(open.P), ClsDelim, 2,
                             "expected ')' after branch label")
         IN  IF close.ok
             THEN [ok |-> TRUE, P |-> close.P,
                   node |-> Node("branch_label", t.text, t.line, t.pos)]
             ELSE [ok |-> FALSE, P |-> close.P, node |-> NoneNode]

\* PlantUMLSyntaxAnalyzer.parse_action
ParseAction(P) ==
    RunItems(P,
             Node("action_node", NoneText, CurrentToken(P).line, CurrentToken(P).pos),
             << TokItem(ClsDelim, 4, "expected ':' before action"),
                ContentItem(ClsAction, "action_content",
                            "expected action content after ':'"),
                TokItem(ClsDelim, 3, "expected ';' after action content") >>)

\* PlantUMLSyntaxAnalyzer.parse_if_statement up to the then-body loop
IfHeader(P) ==
    RunItems(P,
             Node("if_statement", NoneText, CurrentToken(P).line, CurrentToken(P).pos),
             << TokItem(ClsKeyword, 4, "expected 'if'"),
                TokItem(ClsDelim, 1, "expected '(' after 'if'"),
                ContentItem(ClsCond, "condition_content",
                            "expected condition after 'if'"),
                TokItem(ClsDelim, 2, "expected ')' after condition"),
                TokItem(ClsKeyword, 5, "expected 'then'"),
                TokItem(ClsDelim, 1, "expected '(' before 'then' label"),
                ContentItem(ClsCond, "branch_label",
                            "expected branch label after '('"),
                TokItem(ClsDelim, 2, "expected ')' after 'then' label") >>)

\* PlantUMLSyntaxAnalyzer.parse_while_loop up to the body loop
WhileHeader(P) ==
    LET r == RunItems(P,
                 Node("while_loop_node", NoneText,
                      CurrentToken(P).line, CurrentToken(P).pos),
                 << TokItem(ClsKeyword, 8, "expected 'while'"),
                    TokItem(ClsDelim, 1, "expected '(' after 'while'"),
                    ContentItem(ClsCond, "condition_content",
                                "expected condition after 'while'"),
                    TokItem(ClsDelim, 2, "expected ')' after condition"),
                    TokItem(ClsKeyword, 9, "expected 'is'") >>)
        label == ParseBranchLabel(r.P)
    IN  IF ~r.ok THEN r
        ELSE [ok |-> label.ok, P |-> label.P, node |-> AddChild(r.node, label.node)]

\* PlantUMLSyntaxAnalyzer.parse_repeat_until_loop up to the body loop
RepeatHeader(P) ==
    RunItems(P,
             Node("repeat_until_loop_node", NoneText,
                  CurrentToken(P).line, CurrentToken(P).pos),
             << TokItem(ClsKeyword, 11, "expected 'repeat'") >>)

\* the if/elif chain of parse_statement.  kind is "none" (None is returned),
\* "node" (the rule returned its node without reaching its statement loop),
\* "enter" (the rule is at its statement loop: a frame is pushed) or "raise"
\* (a field of the current token is read while there is no current token)
DispatchStatement(P) ==
    IF Match(P, ClsDelim, 4)
    THEN LET r == ParseAction(P) IN
         [kind |-> "node", P |-> r.P, node |-> r.node, rule |-> "action"]
    ELSE IF Match(P, ClsKeyword, 4)
    THEN LET r == IfHeader(P) IN
         [kind |-> IF r.ok THEN "enter" ELSE "node", P |-> r.P, node |-> r.node,
          rule |-> "if"]
    ELSE IF Match(P, ClsKeyword, 11)
    THEN LET r == RepeatHeader(P) IN
         [kind |-> IF r.ok THEN "enter" ELSE "node", P |-> r.P, node |-> r.node,
          rule |-> "repeat"]
    ELSE IF Match(P, ClsKeyword, 8)
    THEN LET r == WhileHeader(P) IN
         [kind |-> IF r.ok THEN "enter" ELSE "node", P |-> r.P, node |-> r.node,
          rule |-> "while"]
    ELSE IF Match(P, ClsKeyword, 7) \/ Match(P, ClsKeyword, 10)
    THEN [kind |-> "none", P |-> P, node |-> NoneNode, rule |-> ""]
    ELSE IF ~HasToken(P)
    THEN [kind |-> "raise", P |-> P, node |-> NoneNode, rule |-> ""]
    ELSE [kind |-> "none", P |-> ParseError(P, "pos", "unexpected token"),
          node |-> NoneNode, rule |-> ""]

\* a parse_statement that omits 'if token is None: return None'
ParseStatement_NoneUnchecked(P) == DispatchStatement(P)

\* PlantUMLSyntaxAnalyzer.parse_statement up to the statement loop of the rule
\* it dispatches to
ParseStatement(P) ==
    IF ~HasToken(P) THEN [kind |-> "none", P |-> P, node |-> NoneNode, rule |-> ""]
    ELSE DispatchStatement(P)

\* a rule invocation standing at a statement loop.  phase names the loop
\* ("then" and "else" for the if rule, "body" otherwise), body is the list the
\* loop collects, start the token position at which the rule was entered,
\* broken is set when the loop has left through its break on a failed statement
Frame(rule, phase, node, start) ==
    [rule |-> rule, phase |-> phase, node |-> node, body |-> <<>>,
     start |-> start, broken |-> FALSE]

TopFrame(P) == P.stack[Len(P.stack)]

\* the conditions under which each statement loop stops before parsing a statement
LoopExit(P) ==
    LET f == TopFrame(P) IN
    CASE f.rule = "program" ->
            \/ Match(P, ClsKeyword, 3)
            \/ ~HasToken(P)
            \/ (MatchClass(P, ClsKeyword) /\ CurrentToken(P).value \in {3, 13})
      [] f.rule = "if" /\ f.phase = "then" ->
            Match(P, ClsKeyword, 6) \/ Match(P, ClsKeyword, 7)
      [] f.rule = "if" /\ f.phase = "else" ->
            Match(P, ClsKeyword, 7)
      [] f.rule = "while" ->
            \/ Match(P, ClsKeyword, 10)
            \/ ~HasToken(P) \/ Match(P, ClsKeyword, 3) \/ Match(P, ClsKeyword, 13)
      [] f.rule = "repeat" ->
            \/ Match(P, ClsKeyword, 12)
            \/ Match(P, ClsKeyword, 3) \/ Match(P, ClsKeyword, 13)

\* the statement loop of the top frame is over
LoopOver(P) == TopFrame(P).broken \/ LoopExit(P)

\* 'if stmt: ... .append(stmt)' in the loop of the top frame
Collect(P, stmt) ==
    [P EXCEPT !.stack[Len(P.stack)].body = Append(@, stmt)]

\* a program loop that does not advance after a failed statement
AdvanceOnFailure_Stuck(P) == P

\* what the program loop does when parse_statement returned None
AdvanceOnFailure(P) == NextToken(P)

\* the else branch of 'if stmt:' in the loop of the top frame: the program
\* loop advances one token, a nested loop breaks
StatementFailed(P) ==
    IF TopFrame(P).rule = "program"
    THEN AdvanceOnFailure(P)
    ELSE [P EXCEPT !.stack[Len(P.stack)].broken = TRUE]

\* one pass of a statement loop up to the point where the statement's own
\* loop starts (a frame is pushed) or the statement has been parsed
StatementStep(P) ==
    LET s == ParseStatement(P) IN
    CASE s.kind = "none"  -> StatementFailed(s.P)
      [] s.kind = "raise" -> [s.P EXCEPT !.raised = TRUE, !.stack = <<>>]
      [] s.kind = "node"  -> Collect([s.P EXCEPT !.calls = @ + 1], s.node)
      [] s.kind = "enter" ->
            [s.P EXCEPT !.calls = @ + 1,
                        !.stack = Append(@,
                Frame(s.rule, IF s.rule = "if" THEN "then" ELSE "body",
                      s.node, P.position))]

\* a body list becomes a child node only when it is not empty
WithBody(node, node_type, body) ==
    IF body = <<>> THEN node
    ELSE AddChild(node, [Node(node_type, NoneText, 0, 0) EXCEPT !.children = body])

\* a rule returns its node to the loop that called parse_statement
Return(P, node) ==
    Collect([P EXCEPT !.stack = Slice(@, 1, Len(@) - 1)], node)

\* parse_if_statement after the then-body loop: the else header, or 'endif'
IfAfterThen(P) ==
    LET f    == TopFrame(P)
        node == WithBody(f.node, "then_branch", f.body)
    IN  IF Match(P, ClsKeyword, 6)
        THEN LET P1 == NextToken(P)
                 P2 == Expect(P1, ClsDelim, 1, "expected '(' before 'else' label").P
                 lab == MatchClass(P2, ClsCond)
                 P3 == IF lab THEN NextToken(P2) ELSE P2
                 n3 == IF lab
                       THEN AddChild(node, Node("else_branch_label",
                                                CurrentToken(P2).text,
                                                CurrentToken(P2).line,
                                                CurrentToken(P2).pos))
                       ELSE node
                 P4 == IF Match(P3, ClsDelim, 2) THEN NextToken(P3) ELSE P3
             IN  [P4 EXCEPT !.stack[Len(P.stack)] =
                     [f EXCEPT !.phase = "else", !.node = n3, !.body = <<>>,
                               !.broken = FALSE]]
        ELSE Return(Expect(P, ClsKeyword, 7, "expected 'endif'").P, node)

\* parse_if_statement after the else-body loop
IfAfterElse(P) ==
    LET f == TopFrame(P) IN
    Return(Expect(P, ClsKeyword, 7, "expected 'endif'").P,
           WithBody(f.node, "else_branch", f.body))

\* parse_while_loop after the body loop: 'endwhile' and the trailing label
WhileAfterBody(P) ==
    LET f    == TopFrame(P)
        node == WithBody(f.node, "while_body", f.body)
        e    == Expect(P, ClsKeyword, 10, "expected 'endwhile'")
        label == ParseBranchLabel(e.P)
    IN  IF ~e.ok THEN Return(e.P, node)
        ELSE Return(label.P, AddChild(node, label.node))

\* parse_repeat_until_loop after the body loop
RepeatAfterBody(P) ==
    LET f == TopFrame(P)
        r == RunItems(P, WithBody(f.node, "repeat_body", f.body),
                 << TokItem(ClsKeyword, 12, "expected 'repeat while'"),
                    TokItem(ClsDelim, 1, "expected '(' after 'repeat while'"),
                    ContentItem(ClsCond, "condition_content",
                                "expected condition after 'repeat while'"),
                    TokItem(ClsDelim, 2, "expected ')' after condition"),
                    TokItem(ClsKeyword, 9, "expected 'is'") >>)
        label == ParseBranchLabel(r.P)
    IN  IF ~r.ok THEN Return(r.P, r.node)
        ELSE Return(label.P,
                    AddChild(r.node,
                             IF label.ok
                             THEN [label.node EXCEPT
                                     !.type = "repeat_until_branch_label"]
                             ELSE NoneNode))

\* a parse() that keeps what the last call left (the body of ParseReset is
\* replaced by this one to see what the properties of a second call catch)
ParseReset_Keep(P0) == P0

\* parse(): self.position = 0, self.errors = [] (and no rule is active)
ParseReset(P0) ==
    [P0 EXCEPT !.position = 0, !.errors = <<>>, !.stack = <<>>,
               !.raised = FALSE, !.calls = 0]

\* parse() and parse_program up to the statement loop
ProgramHeader(P0) ==
    LET P == ParseReset(P0)
        r == RunItems(P, Node("program", NoneText, 1, 1),
                 << TokItem(ClsKeyword, 1, "expected '@startuml'") >>)
        r1 == IF r.ok
              THEN LET t == Toks[1]
                       n == AddChild(r.node, Node("startuml_keyword", t.text,
                                                  t.line, t.pos))
                   IN  RunItems(r.P, n,
                                << TokItem(ClsKeyword, 2, "expected 'start'") >>)
              ELSE r
    IN  IF r1.ok
        THEN LET t == Toks[2] IN
             [r1.P EXCEPT !.stack =
                 << Frame("program", "body",
                          AddChild(r1.node, Node("start_node", t.text, t.line, t.pos)),
                          0) >>]
        ELSE [r1.P EXCEPT !.root = r1.node]

\* parse_program after the statement loop: 'stop', '@enduml'; self.root is set
ProgramAfterBody(P) ==
    LET f  == TopFrame(P)
        n0 == [f.node EXCEPT !.children = @ \o f.body]
        s  == Expect(P, ClsKeyword, 3, "expected 'stop'")
        n1 == IF s.ok
              THEN AddChild(n0, Node("stop_node", CurrentToken(P).text,
                                     CurrentToken(P).line, CurrentToken(P).pos))
              ELSE n0
        e  == Expect(s.P, ClsKeyword, 13, "expected '@enduml'")
        n2 == IF s.ok /\ e.ok
              THEN AddChild(n1, Node("enduml_keyword", CurrentToken(s.P).text,
                                     CurrentToken(s.P).line, CurrentToken(s.P).pos))
              ELSE n1
    IN  [(IF s.ok THEN e.P ELSE s.P) EXCEPT !.root = n2, !.stack = <<>>]

\* the value parse returns
ParserSuccess(P) == Len(P.errors) = 0

\* PlantUMLSyntaxAnalyzer.get_detailed_errors.  The prefix "(конец файла)"
\* gives -1/-1 and the message alone; a prefix that matches (\d+),(\d+)
\* gives its two numbers; any other prefix ("(line, pos)" with a space,
\* "(EOF, 0)") gives -1/-1 and the whole text as message (whole is TRUE)
GetDetailedErrors(P) ==
    [i \in 1..Len(P.errors) |->
        LET e == P.errors[i] IN
        IF e.fmt = "eof"
        THEN [type |-> "error", line |-> -1, pos |-> -1, message |-> e.message,
              whole |-> FALSE, source |-> "parser"]
        ELSE IF e.fmt = "pos"
        THEN [type |-> "error", line |-> e.line, pos |-> e.pos, message |-> e.message,
              whole |-> FALSE, source |-> "parser"]
        ELSE [type |-> "error", line |-> -1, pos |-> -1, message |-> e.message,
              whole |-> TRUE, source |-> "parser"]]

(***************************************************************************)
(* Regular expressions of backend/constants.py, backend/sema.py and        *)
(* backend/code_generator.py, each translated with the matching order of   *)
(* Python's re (greedy and lazy repetition, '.' excludes the newline,      *)
(* '$' also matches before a final newline, \w and \b are Unicode).        *)
(***************************************************************************)
\* [a-zA-Z_] and [a-zA-Z0-9_]
IsIdStart(c) == c \in (AsciiLower \cup AsciiUpper \cup {"_"})

IsIdChar(c) == IsIdStart(c) \/ c \in Digits

\* \w
IsWord(c) == IsAlnum(c) \/ c = "_"

\* the text from index i on
From(s, i) == Slice(s, i, Len(s))

AllSpace(s) == \A i \in 1..Len(s) : IsSpace(s[i])

\* no character that '.' refuses
NoNewline(s) == \A i \in 1..Len(s) : s[i] # "\n"

\* the length of the longest run of whitespace, of identifier characters,
\* of word characters from index i
RECURSIVE WsRun(_, _)
WsRun(s, i) == IF i <= Len(s) /\ IsSpace(s[i]) THEN 1 + WsRun(s, i + 1) ELSE 0

RECURSIVE IdRun(_, _)
IdRun(s, i) == IF i <= Len(s) /\ IsIdChar(s[i]) THEN 1 + IdRun(s, i + 1) ELSE 0

RECURSIVE WordRun(_, _)
WordRun(s, i) == IF i <= Len(s) /\ IsWord(s[i]) THEN 1 + WordRun(s, i + 1) ELSE 0

\* [a-zA-Z_][a-zA-Z0-9_]* over the whole text (re.fullmatch)
IsIdentifier(s) ==
    s # <<>> /\ IsIdStart(s[1]) /\ \A i \in 1..Len(s) : IsIdChar(s[i])

\* the texts at whose end '$' can stand when a pattern is matched against s
Dollar(s) ==
    {s} \cup (IF s # <<>> /\ s[Len(s)] = "\n" THEN {Slice(s, 1, Len(s) - 1)} ELSE {})

\* re.match(r'^[a-zA-Z_][a-zA-Z0-9_]*$', s)
MatchesIdentifier(s) == \E t \in Dollar(s) : IsIdentifier(t)

\* re.match(r'^["\'].*["\']$', s)
IsQuote(c) == c \in {"\"", "'"}

MatchesQuoted(s) ==
    \E t \in Dollar(s) :
        /\ Len(t) >= 2 /\ IsQuote(t[1]) /\ IsQuote(t[Len(t)])
        /\ NoNewline(Slice(t, 2, Len(t) - 1))

\* re.findall(r'\b[a-zA-Z_][a-zA-Z0-9_]*\b', s): a maximal run of word
\* characters is found when the whole run is an ASCII identifier
RECURSIVE FindIdentifiers(_)
FindIdentifiers(s) ==
    IF s = <<>> THEN <<>>
    ELSE IF ~IsWord(s[1]) THEN FindIdentifiers(Tail(s))
    ELSE LET n == WordRun(s, 1)
             w == Slice(s, 1, n)
         IN  (IF IsIdentifier(w) THEN <<w>> ELSE <<>>)
                 \o FindIdentifiers(From(s, n + 1))

\* str.split(',')
RECURSIVE SplitComma(_)
SplitComma(s) ==
    IF \E i \in 1..Len(s) : s[i] = ","
    THEN LET i == CHOOSE i \in 1..Len(s) :
                      s[i] = "," /\ \A j \in 1..(i - 1) : s[j] # ","
         IN  <<Slice(s, 1, i - 1)>> \o SplitComma(From(s, i + 1))
    ELSE <<s>>

\* re.split(r',\s*', s)
RECURSIVE SplitCommaSpace(_)
SplitCommaSpace(s) ==
    IF \E i \in 1..Len(s) : s[i] = ","
    THEN LET i == CHOOSE i \in 1..Len(s) :
                      s[i] = "," /\ \A j \in 1..(i - 1) : s[j] # ","
         IN  <<Slice(s, 1, i - 1)>>
                 \o SplitCommaSpace(From(s, i + 1 + WsRun(s, i + 1)))
    ELSE <<s>>

\* str.replace(old, new)
RECURSIVE Replace(_, _, _)
Replace(s, old, new) ==
    IF s = <<>> THEN <<>>
    ELSE IF StartsWith(s, old) THEN new \o Replace(From(s, Len(old) + 1), old, new)
    ELSE <<s[1]>> \o Replace(Tail(s), old, new)

\* [v.strip() for v in parts if v.strip()]
RECURSIVE StripNonEmpty(_)
StripNonEmpty(parts) ==
    IF parts = <<>> THEN <<>>
    ELSE (IF Strip(Head(parts)) # <<>> THEN <<Strip(Head(parts))>> ELSE <<>>)
             \o StripNonEmpty(Tail(parts))

\* the pairs of a set, each the candidate of a backtracking search; the
\* search takes the largest first component and then the smallest second
FirstTry(cands) ==
    CHOOSE c \in cands :
        \A d \in cands : d[1] < c[1] \/ (d[1] = c[1] /\ d[2] >= c[2])

\* \s*(.+)$ against the text r: the group, when there is a match
TailCands(r) ==
    { c \in (0..WsRun(r, 1)) \X {0 - Len(t) : t \in Dollar(r)} :
          (0 - c[2]) > c[1] /\ NoNewline(Slice(r, c[1] + 1, 0 - c[2])) }

TailGroup(r) ==
    IF TailCands(r) = {} THEN [ok |-> FALSE, text |-> <<>>]
    ELSE LET c == FirstTry(TailCands(r))
         IN  [ok |-> TRUE, text |-> Slice(r, c[1] + 1, 0 - c[2])]

\* (:?=) at index i: the index after it, or 0
AfterAssignOp(s, i) ==
    IF i + 1 <= Len(s) /\ s[i] = ":" /\ s[i + 1] = "=" THEN i + 2
    ELSE IF i <= Len(s) /\ s[i] = "=" THEN i + 1
    ELSE 0

NoMatch == [ok |-> FALSE]

\* re.match(r'^([a-zA-Z_][a-zA-Z0-9_]*)\s*(:?=)\s*(.+)$', s): groups 1 and 3
AssignmentPattern(s) ==
    IF s = <<>> \/ ~IsIdStart(s[1]) THEN NoMatch
    ELSE LET n == IdRun(s, 1)
             a == AfterAssignOp(s, n + 1 + WsRun(s, n + 1))
         IN  IF a = 0 \/ ~TailGroup(From(s, a)).ok THEN NoMatch
             ELSE [ok |-> TRUE, name |-> Slice(s, 1, n),
                   value |-> TailGroup(From(s, a)).text]

\* \s*\]\s*(:?=)\s*(.+)$ from index i: the last group, when there is a match
AfterIndex(s, i) ==
    LET j == i + WsRun(s, i)
        a == IF j <= Len(s) /\ s[j] = "]"
             THEN AfterAssignOp(s, j + 1 + WsRun(s, j + 1)) ELSE 0
    IN  IF a = 0 THEN [ok |-> FALSE, text |-> <<>>] ELSE TailGroup(From(s, a))

\* re.match(r'^([a-zA-Z_][a-zA-Z0-9_]*)\s*\[\s*(.+?)\s*\]\s*(:?=)\s*(.+)$', s):
\* groups 1, 2 and 4
ArrayAssignPattern(s) ==
    IF s = <<>> \/ ~IsIdStart(s[1]) THEN NoMatch
    ELSE LET n == IdRun(s, 1)
             p == n + 1 + WsRun(s, n + 1)
             cands == { c \in (0..WsRun(s, p + 1)) \X (1..Len(s)) :
                          /\ c[2] >= p + 1 + c[1]
                          /\ NoNewline(Slice(s, p + 1 + c[1], c[2]))
                          /\ AfterIndex(s, c[2] + 1).ok }
         IN  IF p > Len(s) \/ s[p] # "[" \/ cands = {} THEN NoMatch
             ELSE LET c == FirstTry(cands)
                  IN  [ok |-> TRUE, name |-> Slice(s, 1, n),
                       index |-> Slice(s, p + 1 + c[1], c[2]),
                       value |-> AfterIndex(s, c[2] + 1).text]

\* ARRAY_ACCESS_PATTERN.match(s): group 1
ArrayAccessPattern(s) ==
    IF s = <<>> \/ ~IsIdStart(s[1]) THEN NoMatch
    ELSE LET n == IdRun(s, 1)
             p == n + 1 + WsRun(s, n + 1)
         IN  IF /\ p <= Len(s) /\ s[p] = "["
                /\ \E t \in Dollar(s) :
                     /\ Len(t) > p /\ t[Len(t)] = "]"
                     /\ \E i \in (p + 1)..(Len(t) - 1), j \in (p + 1)..(Len(t) - 1) :
                          /\ i <= j
                          /\ AllSpace(Slice(t, p + 1, i - 1))
                          /\ NoNewline(Slice(t, i, j))
                          /\ AllSpace(Slice(t, j + 1, Len(t) - 1))
             THEN [ok |-> TRUE, name |-> Slice(s, 1, n)]
             ELSE NoMatch

\* (to|downto) at index k, ignoring case: the length of the keyword, or 0
DirectionAt(s, k) ==
    IF k + 1 <= Len(s) /\ Lower(Slice(s, k, k + 1)) = <<"t", "o">> THEN 2
    ELSE IF k + 5 <= Len(s) /\ Lower(Slice(s, k, k + 5)) = <<"d", "o", "w", "n", "t", "o">> THEN 6
    ELSE 0

\* \s+(.+?)\s*$ against the text r: the group, when there is a match
EndCands(r) ==
    { c \in (1..WsRun(r, 1)) \X (1..Len(r)) :
          /\ c[2] > c[1]
          /\ NoNewline(Slice(r, c[1] + 1, c[2]))
          /\ AllSpace(From(r, c[2] + 1)) }

\* what follows group 2 ending at index e: \s+(to|downto)\s+(.+?)\s*$
AfterStart(s, e) ==
    LET k == e + 1 + WsRun(s, e + 1)
        d == DirectionAt(s, k)
        r == From(s, k + d)
    IN  IF WsRun(s, e + 1) = 0 \/ d = 0 \/ EndCands(r) = {}
        THEN NoMatch
        ELSE LET c == FirstTry(EndCands(r))
             IN  [ok |-> TRUE, direction |-> Slice(s, k, k + d - 1),
                  end |-> Slice(r, c[1] + 1, c[2])]

\* FOR_LOOP_PATTERN.match(s): groups 1 to 4
ForLoopPattern(s) ==
    LET b == 1 + WsRun(s, 1)
        n == IdRun(s, b)
        q == b + n + WsRun(s, b + n)
        cands == { c \in (0..WsRun(s, q + 2)) \X (1..Len(s)) :
                     /\ c[2] >= q + 2 + c[1]
                     /\ NoNewline(Slice(s, q + 2 + c[1], c[2]))
                     /\ AfterStart(s, c[2]).ok }
    IN  IF \/ b > Len(s) \/ ~IsIdStart(s[b])
           \/ q + 1 > Len(s) \/ s[q] # ":" \/ s[q + 1] # "="
           \/ cands = {}
        THEN NoMatch
        ELSE LET c == FirstTry(cands)
                 a == AfterStart(s, c[2])
             IN  [ok |-> TRUE, counter |-> Slice(s, b, b + n - 1),
                  start |-> Slice(s, q + 2 + c[1], c[2]),
                  direction |-> a.direction, end |-> a.end]

AllDigits(s) == \A i \in 1..Len(s) : s[i] \in Digits

HasChar(s, c) == \E i \in 1..Len(s) : s[i] = c

\* (\d+\.?\d*|\.\d+) over the whole text
IsMantissa(s) ==
    /\ \A i \in 1..Len(s) : s[i] \in (Digits \cup {"."})
    /\ \E i \in 1..Len(s) : s[i] \in Digits
    /\ Cardinality({i \in 1..Len(s) : s[i] = "."}) <= 1

DropSign(s) == IF s # <<>> /\ s[1] \in {"+", "-"} THEN Tail(s) ELSE s

\* re.match(r'^[+-]?(\d+\.?\d*|\.\d+)$', s)
MatchesDecimal(s) == \E t \in Dollar(s) : IsMantissa(DropSign(t))

\* re.match(r'^[+-]?(\d+\.?\d*|\.\d+)([eE][+-]?\d+)?$', s)
MatchesNumber(s) ==
    \E t \in Dollar(s) :
        LET u == DropSign(t) IN
        \/ IsMantissa(u)
        \/ \E i \in 1..Len(u) :
              /\ u[i] \in {"e", "E"}
              /\ IsMantissa(Slice(u, 1, i - 1))
              /\ DropSign(From(u, i + 1)) # <<>>
              /\ AllDigits(DropSign(From(u, i + 1)))

\* re.search(r'[^/]=/\s*[^/]', s) or re.search(r'[^<>=]/[^=]', s)
DivisionSearch(s) ==
    \/ \E i \in 1..Len(s), j \in 1..Len(s) :
          /\ i + 2 < j
          /\ s[i] # "/" /\ s[i + 1] = "=" /\ s[i + 2] = "/"
          /\ AllSpace(Slice(s, i + 3, j - 1)) /\ s[j] # "/"
    \/ \E i \in 1..(Len(s) - 2) :
          s[i] \notin {"<", ">", "="} /\ s[i + 1] = "/" /\ s[i + 2] # "="

\* re.findall(r'[a-zA-Z_][a-zA-Z0-9_]*|[\d.]+|[+\-*/()]', s)
IsDigitOrDot(c) == c \in (Digits \cup {"."})

RECURSIVE DigitDotRun(_, _)
DigitDotRun(s, i) ==
    IF i <= Len(s) /\ IsDigitOrDot(s[i]) THEN 1 + DigitDotRun(s, i + 1) ELSE 0

RECURSIVE OperandTokens(_)
OperandTokens(s) ==
    IF s = <<>> THEN <<>>
    ELSE IF IsIdStart(s[1])
    THEN <<Slice(s, 1, IdRun(s, 1))>> \o OperandTokens(From(s, IdRun(s, 1) + 1))
    ELSE IF IsDigitOrDot(s[1])
    THEN LET n == DigitDotRun(s, 1)
         IN  <<Slice(s, 1, n)>> \o OperandTokens(From(s, n + 1))
    ELSE IF s[1] \in {"+", "-", "*", "/", "(", ")"}
    THEN <<<<s[1]>>>> \o OperandTokens(Tail(s))
    ELSE OperandTokens(Tail(s))

PASCAL_KEYWORDS ==
    { <<"a", "n", "d">>, <<"a", "b", "s">>, <<"a", "r", "r", "a", "y">>, <<"a", "s">>, <<"b", "e", "g", "i", "n">>, <<"c", "a", "s", "e">>, <<"c", "l", "a", "s", "s">>, <<"c", "o", "n", "s", "t">>,
      <<"c", "o", "n", "s", "t", "r", "u", "c", "t", "o", "r">>, <<"c", "o", "n", "t", "i", "n", "u", "e">>, <<"d", "e", "s", "t", "r", "u", "c", "t", "o", "r">>, <<"d", "i", "v">>, <<"d", "o">>, <<"d", "o", "w", "n", "t", "o">>, <<"e", "l", "s", "e">>,
      <<"e", "n", "d">>, <<"e", "n", "u", "m">>, <<"e", "x", "c", "e", "p", "t">>, <<"e", "x", "p", "o", "r", "t", "s">>, <<"f", "i", "l", "e">>, <<"f", "i", "n", "a", "l", "i", "z", "a", "t", "i", "o", "n">>, <<"f", "i", "n", "a", "l", "l", "y">>,
      <<"f", "o", "r">>, <<"f", "o", "r", "e", "a", "c", "h">>, <<"f", "o", "r", "w", "a", "r", "d">>, <<"f", "u", "n", "c", "t", "i", "o", "n">>, <<"g", "o", "t", "o">>, <<"i", "f">>, <<"i", "m", "p", "l", "e", "m", "e", "n", "t", "a", "t", "i", "o", "n">>,
      <<"i", "n">>, <<"i", "n", "h", "e", "r", "i", "t", "e", "d">>, <<"i", "n", "i", "t", "i", "a", "l", "i", "z", "a", "t", "i", "o", "n">>, <<"i", "n", "l", "i", "n", "e">>, <<"i", "n", "t", "e", "r", "f", "a", "c", "e">>, <<"i", "s">>,
      <<"l", "a", "b", "e", "l">>, <<"m", "o", "d">>, <<"n", "e", "w">>, <<"n", "i", "l">>, <<"n", "o", "t">>, <<"o", "b", "j", "e", "c", "t">>, <<"o", "f">>, <<"o", "p", "e", "r", "a", "t", "o", "r">>, <<"o", "r">>,
      <<"p", "a", "c", "k", "e", "d">>, <<"p", "r", "o", "c", "e", "d", "u", "r", "e">>, <<"p", "r", "o", "g", "r", "a", "m">>, <<"p", "r", "o", "p", "e", "r", "t", "y">>, <<"r", "a", "i", "s", "e">>, <<"r", "e", "c", "o", "r", "d">>,
      <<"r", "e", "p", "e", "a", "t">>, <<"s", "e", "a", "l", "e", "d">>, <<"s", "e", "t">>, <<"s", "h", "l">>, <<"s", "h", "r">>, <<"s", "t", "a", "t", "i", "c">>, <<"s", "t", "r", "i", "n", "g">>, <<"t", "h", "e", "n">>,
      <<"t", "o">>, <<"t", "r", "y">>, <<"t", "y", "p", "e">>, <<"u", "n", "i", "t">>, <<"u", "n", "t", "i", "l">>, <<"u", "s", "e", "s">>, <<"v", "a", "r">>, <<"w", "h", "i", "l", "e">>, <<"w", "i", "t", "h">>,
      <<"x", "o", "r">>, <<"t", "r", "u", "e">>, <<"f", "a", "l", "s", "e">>, <<"i", "n", "t", "e", "g", "e", "r">>, <<"r", "e", "a", "l">>, <<"b", "o", "o", "l", "e", "a", "n">>, <<"c", "h", "a", "r">>,
      <<"p", "r", "i", "v", "a", "t", "e">>, <<"p", "r", "o", "t", "e", "c", "t", "e", "d">>, <<"p", "u", "b", "l", "i", "c">>, <<"i", "n", "t", "e", "r", "n", "a", "l">>, <<"y", "i", "e", "l", "d">>, <<"b", "r", "e", "a", "k">> }

(***************************************************************************)
(* Semantic analysis: backend/sema.py, classes Symbol, SymbolTable and     *)
(* SemanticAnalyzer.  The symbol table is the list of its symbols in       *)
(* insertion order.                                                        *)
(***************************************************************************)
\* Python None where a line or a position is expected
NoneNum == -1

\* Python None (or an empty tuple) where an index range is expected
NoneSize == <<>>

\* str(n) for an integer
DigitSeq == <<"0", "1", "2", "3", "4", "5", "6", "7", "8", "9">>

RECURSIVE NatText(_)
NatText(n) ==
    IF n < 10 THEN <<DigitSeq[n + 1]>>
    ELSE NatText(n \div 10) \o <<DigitSeq[(n % 10) + 1]>>

IntText(n) == IF n < 0 THEN <<"-">> \o NatText(0 - n) ELSE NatText(n)

\* Symbol.__init__
Symbol(name, var_type, is_array, array_size, declared, line, pos) ==
    [name |-> name, base_type |-> var_type, is_array |-> is_array,
     array_size |-> array_size, declared |-> declared, line |-> line, pos |-> pos]

\* Symbol.type
SymbolType(symbol) ==
    IF symbol.is_array
    THEN <<"a", "r", "r", "a", "y", "[">> \o IntText(symbol.array_size[1]) \o <<".", ".">>
             \o IntText(symbol.array_size[2]) \o <<"]", " ", "o", "f", " ">> \o symbol.base_type
    ELSE symbol.base_type

\* name in self.symbols, and SymbolTable.lookup
Defined(table, name) == \E i \in 1..Len(table) : table[i].name = name

Lookup(table, name) == table[CHOOSE i \in 1..Len(table) : table[i].name = name]

\* the base type after a definition that does not widen (the body is replaced
\* to see what the properties of define catch)
DefineBaseType_Overwrite(existing_base_type, var_type) == var_type

\* SymbolTable.define: the base type of an existing symbol after the call
DefineBaseType(existing_base_type, var_type) ==
    IF var_type = <<"r", "e", "a", "l">> /\ existing_base_type = <<"i", "n", "t", "e", "g", "e", "r">> THEN <<"r", "e", "a", "l">>
    ELSE existing_base_type

\* SymbolTable.define
Define(table, name, var_type, is_array, array_size, declared, line, pos) ==
    IF ~Defined(table, name)
    THEN Append(table,
                Symbol(name, var_type, is_array,
                       IF array_size = NoneSize THEN <<0, 100>> ELSE array_size,
                       declared, line, pos))
    ELSE LET i == CHOOSE i \in 1..Len(table) : table[i].name = name
             existing == table[i]
         IN  [table EXCEPT ![i] =
                [existing EXCEPT
                    !.is_array = IF is_array THEN TRUE ELSE @,
                    !.array_size = IF is_array /\ array_size # NoneSize
                                   THEN array_size ELSE @,
                    !.base_type = DefineBaseType(@, var_type),
                    !.declared = IF declared THEN TRUE ELSE @,
                    !.line = IF /\ line # NoneNum /\ pos # NoneNum
                                /\ (existing.line = NoneNum \/ line < existing.line)
                             THEN line ELSE @,
                    !.pos = IF /\ line # NoneNum /\ pos # NoneNum
                               /\ (existing.line = NoneNum \/ line < existing.line)
                            THEN pos ELSE @]]

\* define(name, line=line, pos=pos): the default type, not declared
DefineUse(table, name, line, pos) ==
    Define(table, name, <<"i", "n", "t", "e", "g", "e", "r">>, FALSE, NoneSize, FALSE, line, pos)

\* SemanticAnalyzer.__init__ and the reset in analyze
\* (todo: the nodes _visit has still to reach, the next one first)
NewSema == [symbol_table |-> <<>>, errors |-> <<>>, warnings |-> <<>>,
            todo |-> <<>>]

Diag(line, pos, message) == [line |-> line, pos |-> pos, message |-> message]

AddError(S, line, pos, message) ==
    [S EXCEPT !.errors = Append(@, Diag(line, pos, message))]

AddWarning(S, line, pos, message) ==
    [S EXCEPT !.warnings = Append(@, Diag(line, pos, message))]

\* SemanticAnalyzer.infer_type: the type of a bare identifier
IdentifierType(table, expr) ==
    IF Defined(table, expr) THEN SymbolType(Lookup(table, expr)) ELSE <<"i", "n", "t", "e", "g", "e", "r">>

\* SemanticAnalyzer.infer_type
RECURSIVE InferType(_, _)
InferType(expression_str, table) ==
    LET expr == Strip(expression_str)
        array_match == ArrayAccessPattern(expr)
        tokens == OperandTokens(expr)
    IN  IF StartsWith(expr, <<"a", "b", "s", "(">>) /\ EndsWith(expr, <<")">>)
        THEN InferType(Strip(Slice(expr, 5, Len(expr) - 1)), table)
        ELSE IF array_match.ok
        THEN IF Defined(table, array_match.name) /\ Lookup(table, array_match.name).is_array
             THEN Lookup(table, array_match.name).base_type
             ELSE <<"i", "n", "t", "e", "g", "e", "r">>
        ELSE IF MatchesQuoted(expr) THEN <<"s", "t", "r", "i", "n", "g">>
        ELSE IF Lower(expr) \in {<<"t", "r", "u", "e">>, <<"f", "a", "l", "s", "e">>} THEN <<"b", "o", "o", "l", "e", "a", "n">>
        ELSE IF MatchesNumber(expr)
        THEN IF HasChar(expr, ".") \/ HasChar(Lower(expr), "e") THEN <<"r", "e", "a", "l">>
             ELSE <<"i", "n", "t", "e", "g", "e", "r">>
        ELSE IF MatchesIdentifier(expr) THEN IdentifierType(table, expr)
        ELSE IF DivisionSearch(expr) THEN <<"r", "e", "a", "l">>
        ELSE IF \E i \in 1..Len(tokens) :
                   \/ /\ MatchesIdentifier(tokens[i])
                      /\ Defined(table, tokens[i])
                      /\ SymbolType(Lookup(table, tokens[i])) = <<"r", "e", "a", "l">>
                   \/ /\ ~MatchesIdentifier(tokens[i])
                      /\ MatchesDecimal(tokens[i])
                      /\ HasChar(tokens[i], ".")
        THEN <<"r", "e", "a", "l">>
        ELSE <<"i", "n", "t", "e", "g", "e", "r">>

\* _analyze_action_content, input form: the loop over var_names
RECURSIVE AnalyzeInputNames(_, _, _, _)
AnalyzeInputNames(S, var_names, line, pos) ==
    IF var_names = <<>> THEN S
    ELSE LET var_name == Head(var_names)
             S1 == IF MatchesIdentifier(var_name)
                   THEN [S EXCEPT !.symbol_table =
                            Define(@, var_name, <<"i", "n", "t", "e", "g", "e", "r">>, FALSE, NoneSize, TRUE,
                                   line, pos)]
                   ELSE AddError(S, line, pos,
                                 <<"invalid variable name in input", var_name>>)
         IN  AnalyzeInputNames(S1, Tail(var_names), line, pos)

\* _analyze_action_content, output form: the loop over parts
RECURSIVE AnalyzeOutputParts(_, _, _, _)
AnalyzeOutputParts(S, parts, line, pos) ==
    IF parts = <<>> THEN S
    ELSE LET part == Strip(Head(parts))
             S1 == IF part = <<>> \/ MatchesQuoted(part) \/ ~IsIdentifier(part)
                   THEN S
                   ELSE LET W == IF Defined(S.symbol_table, part) THEN S
                                 ELSE AddWarning(S, line, pos,
                                        <<"used in output but not declared", part>>)
                        IN  [W EXCEPT !.symbol_table = DefineUse(@, part, line, pos)]
         IN  AnalyzeOutputParts(S1, Tail(parts), line, pos)

\* _analyze_action_content, array assignment: the loop over index_vars
RECURSIVE DefineIndexVars(_, _, _, _)
DefineIndexVars(table, index_vars, line, pos) ==
    IF index_vars = <<>> THEN table
    ELSE DefineIndexVars(IF Lower(Head(index_vars)) \in PASCAL_KEYWORDS THEN table
                         ELSE DefineUse(table, Head(index_vars), line, pos),
                         Tail(index_vars), line, pos)

\* _analyze_action_content, scalar assignment: the loop over expr_vars
RECURSIVE AnalyzeExprVars(_, _, _, _, _)
AnalyzeExprVars(S, expr_vars, var_name, line, pos) ==
    IF expr_vars = <<>> THEN S
    ELSE LET used_var == Head(expr_vars)
             S1 == IF used_var = var_name THEN S
                   ELSE LET W == IF Defined(S.symbol_table, used_var) THEN S
                                 ELSE AddWarning(S, line, pos,
                                        <<"used in expression but not declared",
                                          used_var>>)
                        IN  [W EXCEPT !.symbol_table =
                                DefineUse(@, used_var, line, pos)]
         IN  AnalyzeExprVars(S1, Tail(expr_vars), var_name, line, pos)

\* _analyze_action_content with the error left out (the body of
\* InvalidContent is replaced by this one to see what the properties of the
\* analysis catch)
InvalidContent_Ignored(S, content, line, pos) == S

\* _analyze_action_content: the content is no input, no output and no
\* assignment
InvalidContent(S, content, line, pos) ==
    AddError(S, line, pos, <<"invalid block content", content>>)

\* SemanticAnalyzer._analyze_action_content
AnalyzeActionContent(S, content_arg, line, pos) ==
    LET content == Strip(content_arg)
        array_assign_match == ArrayAssignPattern(content)
        assignment_match == AssignmentPattern(content)
    IN  IF StartsWith(content, <<"Cyr_VE", "cyr_ve", "cyr_o", "cyr_de", ":">>)
        THEN AnalyzeInputNames(
                 S, StripNonEmpty(SplitCommaSpace(Strip(From(content, 6)))),
                 line, pos)
        ELSE IF StartsWith(content, <<"Cyr_VE", "cyr_yeru", "cyr_ve", "cyr_o", "cyr_de", ":">>)
        THEN LET output_content == Strip(From(content, 7))
             IN  IF output_content = <<>>
                 THEN AddWarning(S, line, pos, <<"empty output">>)
                 ELSE AnalyzeOutputParts(S, SplitComma(output_content), line, pos)
        ELSE IF array_assign_match.ok
        THEN LET value_type == InferType(Strip(array_assign_match.value),
                                         S.symbol_table)
                 t1 == Define(S.symbol_table, array_assign_match.name, value_type,
                              TRUE, NoneSize, TRUE, line, pos)
             IN  [S EXCEPT !.symbol_table =
                     DefineIndexVars(t1,
                         FindIdentifiers(Strip(array_assign_match.index)),
                         line, pos)]
        ELSE IF assignment_match.ok
        THEN LET var_name == assignment_match.name
                 expression == Strip(assignment_match.value)
                 var_type == InferType(expression, S.symbol_table)
                 S1 == [S EXCEPT !.symbol_table =
                           Define(@, var_name, var_type, FALSE, NoneSize, TRUE,
                                  line, pos)]
             IN  AnalyzeExprVars(S1, FindIdentifiers(expression), var_name,
                                 line, pos)
        ELSE InvalidContent(S, content, line, pos)

\* _analyze_condition_content, counting loop: the loop over vars_in_expr
RECURSIVE DefineBoundVars(_, _, _, _)
DefineBoundVars(table, vars_in_expr, line, pos) ==
    IF vars_in_expr = <<>> THEN table
    ELSE DefineBoundVars(IF Lower(Head(vars_in_expr)) \in PASCAL_KEYWORDS THEN table
                         ELSE DefineUse(table, Head(vars_in_expr), line, pos),
                         Tail(vars_in_expr), line, pos)

\* _analyze_condition_content, ordinary condition: a warning for every
\* occurrence (the body of the loop is replaced by this one to see what the
\* properties of the analysis catch)
ConditionIdentifier_WarnAlways(S, var_name, line, pos) ==
    [AddWarning(S, line, pos, <<"used in condition but not declared", var_name>>)
        EXCEPT !.symbol_table =
            Define(@, var_name, <<"i", "n", "t", "e", "g", "e", "r">>, FALSE, NoneSize, TRUE, line, pos)]

\* _analyze_condition_content, ordinary condition: the body of the loop for
\* an identifier that is not a reserved word
ConditionIdentifier(S, var_name, line, pos) ==
    LET W == IF Defined(S.symbol_table, var_name) THEN S
             ELSE AddWarning(S, line, pos,
                             <<"used in condition but not declared", var_name>>)
    IN  [W EXCEPT !.symbol_table =
            Define(@, var_name, <<"i", "n", "t", "e", "g", "e", "r">>, FALSE, NoneSize, TRUE, line, pos)]

\* _analyze_condition_content, ordinary condition: the loop over identifiers
RECURSIVE AnalyzeConditionIdentifiers(_, _, _, _)
AnalyzeConditionIdentifiers(S, identifiers, line, pos) ==
    IF identifiers = <<>> THEN S
    ELSE AnalyzeConditionIdentifiers(
             IF Lower(Head(identifiers)) \in PASCAL_KEYWORDS THEN S
             ELSE ConditionIdentifier(S, Head(identifiers), line, pos),
             Tail(identifiers), line, pos)

\* SemanticAnalyzer._analyze_condition_content
AnalyzeConditionContent(S, content_arg, line, pos) ==
    LET content == Replace(content_arg, <<"!", "=">>, <<"<", ">">>)
        for_match == ForLoopPattern(content)
    IN  IF for_match.ok
        THEN LET t1 == Define(S.symbol_table, for_match.counter, <<"i", "n", "t", "e", "g", "e", "r">>, FALSE,
                              NoneSize, TRUE, line, pos)
                 t2 == DefineBoundVars(t1, FindIdentifiers(Strip(for_match.start)),
                                       line, pos)
             IN  [S EXCEPT !.symbol_table =
                    DefineBoundVars(t2, FindIdentifiers(Strip(for_match.end)),
                                    line, pos)]
        ELSE AnalyzeConditionIdentifiers(S, FindIdentifiers(content), line, pos)

\* SemanticAnalyzer._process_node
ProcessNode(S, node) ==
    IF node.type = "action_content" /\ node.value \notin {NoneText, <<>>}
    THEN AnalyzeActionContent(S, node.value, node.line, node.pos)
    ELSE IF node.type = "condition_content" /\ node.value \notin {NoneText, <<>>}
    THEN AnalyzeConditionContent(S, node.value, node.line, node.pos)
    ELSE S

\* SemanticAnalyzer._visit on the next node: the node is processed and its
\* children are visited before the nodes that were waiting
VisitNext(S) ==
    LET node == Head(S.todo)
    IN  [ProcessNode(S, node) EXCEPT !.todo = node.children \o Tail(S.todo)]

\* SemanticAnalyzer.analyze up to the first visit
AnalyzeStart(ast_root_node) ==
    [NewSema EXCEPT !.todo = IF ast_root_node = NoneNode THEN <<>>
                             ELSE <<ast_root_node>>]

\* SemanticAnalyzer.get_all_issues: a message is kept when its position
\* reads as two unsigned numbers
RECURSIVE Issues(_, _)
Issues(messages, type) ==
    IF messages = <<>> THEN <<>>
    ELSE (IF Head(messages).line >= 0 /\ Head(messages).pos >= 0
          THEN << [type |-> type, line |-> Head(messages).line,
                   pos |-> Head(messages).pos, message |-> Head(messages).message,
                   source |-> "semantic"] >>
          ELSE <<>>) \o Issues(Tail(messages), type)

GetAllIssues(S) == Issues(S.errors, "error") \o Issues(S.warnings, "warning")

(***************************************************************************)
(* Code generation: backend/code_generator.py, class PascalCodeGenerator.  *)
(* An exception in flight is the field exc of the generator ("" when there *)
(* is none): a statement that raises sets it, every loop stops on it and   *)
(* an except clause clears it.  visited lists the nodes given to _visit,   *)
(* each by its path of child indices from the root.                        *)
(***************************************************************************)
\* PascalCodeGenerator.__init__
NewGen ==
    [code_lines |-> <<>>, errors |-> <<>>, indent_level |-> 0, exc |-> "",
     visited |-> <<>>, result |-> NoneText, summary |-> <<>>]

\* PascalCodeGenerator._record_error
RecordError(G, message, source_line, source_pos) ==
    [G EXCEPT !.errors = Append(@, [type |-> "error", line |-> source_line,
                                    pos |-> source_pos, message |-> message,
                                    source |-> "generator"])]

\* an except clause that lets the exception pass (the body of Catch is
\* replaced by this one to see what the properties of generate catch)
Catch_Reraise(G, message, source_line) == G

\* except Exception as e: self._record_error(f"...{str(e)}", source_line=...)
Catch(G, message, source_line) ==
    IF G.exc = "" THEN G
    ELSE RecordError([G EXCEPT !.exc = ""], Append(message, G.exc), source_line, -1)

\* "    " * self.indent_level
RECURSIVE Indent(_)
Indent(level) == IF level <= 0 THEN <<>> ELSE <<" ", " ", " ", " ">> \o Indent(level - 1)

\* PascalCodeGenerator._add_line
AddLine(G, line) ==
    IF G.exc # "" THEN G
    ELSE [G EXCEPT !.code_lines = Append(@, Indent(G.indent_level) \o line)]

\* self.indent_level += d
Shift(G, d) == IF G.exc # "" THEN G ELSE [G EXCEPT !.indent_level = @ + d]

\* sep.join(parts)
RECURSIVE Join(_, _)
Join(sep, parts) ==
    IF parts = <<>> THEN <<>>
    ELSE IF Len(parts) = 1 THEN parts[1]
    ELSE parts[1] \o sep \o Join(sep, Tail(parts))

\* inner.replace("'", "''") between Pascal quotes
PascalString(inner) == <<"'">> \o Replace(inner, <<"'">>, <<"'", "'">>) \o <<"'">>

\* re.split(r'(["\'].*?["\'])', expr): the texts between the quoted pieces
\* and the quoted pieces, in order
ClosingQuote(s, i) ==
    IF \E j \in (i + 1)..Len(s) : IsQuote(s[j]) /\ NoNewline(Slice(s, i + 1, j - 1))
    THEN CHOOSE j \in (i + 1)..Len(s) :
             /\ IsQuote(s[j]) /\ NoNewline(Slice(s, i + 1, j - 1))
             /\ \A k \in (i + 1)..(j - 1) : ~IsQuote(s[k])
    ELSE 0

RECURSIVE SplitQuoted(_, _)
SplitQuoted(s, from) ==
    LET opens == { i \in from..Len(s) : IsQuote(s[i]) /\ ClosingQuote(s, i) # 0 }
    IN  IF opens = {} THEN <<s>>
        ELSE LET i == CHOOSE i \in opens : \A k \in opens : i <= k
                 j == ClosingQuote(s, i)
             IN  <<Slice(s, 1, i - 1), Slice(s, i, j)>> \o SplitQuoted(From(s, j + 1), 1)

RECURSIVE ProcessParts(_)
ProcessParts(parts) ==
    IF parts = <<>> THEN <<>>
    ELSE LET part == Head(parts)
         IN  (IF part = <<>> THEN <<>>
              ELSE IF MatchesQuoted(part)
              THEN PascalString(Slice(part, 2, Len(part) - 1))
              ELSE part) \o ProcessParts(Tail(parts))

\* PascalCodeGenerator._process_string_literals
ProcessStringLiterals(expr) ==
    IF expr = <<>> THEN expr ELSE ProcessParts(SplitQuoted(expr, 1))

\* the printable ASCII characters in code order (the grave accent is written
\* "GRAVE"), and the order of texts that sorted() uses
AsciiOrder ==
    << " ", "!", "\"", "#", "$", "%", "&", "'", "(", ")", "*", "+", ",", "-", ".", "/",
       "0", "1", "2", "3", "4", "5", "6", "7", "8", "9", ":", ";", "<", "=", ">", "?",
       "@", "A", "B", "C", "D", "E", "F", "G", "H", "I", "J", "K", "L", "M", "N", "O",
       "P", "Q", "R", "S", "T", "U", "V", "W", "X", "Y", "Z", "[", "\\", "]", "^", "_",
       "GRAVE", "a", "b", "c", "d", "e", "f", "g", "h", "i", "j", "k", "l", "m", "n", "o",
       "p", "q", "r", "s", "t", "u", "v", "w", "x", "y", "z", "{", "|", "}", "~" >>

CharCode(c) ==
    IF \E i \in 1..Len(AsciiOrder) : AsciiOrder[i] = c
    THEN CHOOSE i \in 1..Len(AsciiOrder) : AsciiOrder[i] = c
    ELSE IF c \in {"\n", "\t"} THEN 0
    ELSE Len(AsciiOrder) + 1

RECURSIVE TextLess(_, _)
TextLess(a, b) ==
    IF b = <<>> THEN FALSE
    ELSE IF a = <<>> THEN TRUE
    ELSE IF CharCode(a[1]) # CharCode(b[1]) THEN CharCode(a[1]) < CharCode(b[1])
    ELSE TextLess(Tail(a), Tail(b))

\* sorted(texts)
RECURSIVE Sorted(_)
Sorted(texts) ==
    IF texts = {} THEN <<>>
    ELSE LET m == CHOOSE m \in texts : \A t \in texts : t = m \/ TextLess(m, t)
         IN  <<m>> \o Sorted(texts \ {m})

\* _generate_var_section: the loop over the symbols
RECURSIVE VarSymbols(_, _)
VarSymbols(G, symbols) ==
    IF symbols = <<>> THEN G
    ELSE VarSymbols(IF Head(symbols).name = NoneText
                    THEN RecordError(G, <<"symbol without a name">>, -1, -1)
                    ELSE G,
                    Tail(symbols))

\* the symbols that have a name, reserved or not (the body of Declared is
\* replaced by this one to see what the properties of the VAR section catch)
Declared_WithReserved(symbols) ==
    { i \in 1..Len(symbols) : symbols[i].name # NoneText }

\* _generate_var_section: types_dict, as the set of declared types and the
\* names of each
Declared(symbols) ==
    { i \in 1..Len(symbols) :
          symbols[i].name # NoneText /\ Lower(symbols[i].name) \notin PASCAL_KEYWORDS }

DeclaredTypes(symbols) == { SymbolType(symbols[i]) : i \in Declared(symbols) }

NamesOfType(symbols, pascal_type) ==
    { symbols[i].name : i \in { k \in Declared(symbols) :
                                   SymbolType(symbols[k]) = pascal_type } }

RECURSIVE VarLines(_, _, _)
VarLines(G, symbols, types) ==
    IF types = <<>> THEN G
    ELSE VarLines(AddLine(G, Join(<<",", " ">>, Sorted(NamesOfType(symbols, Head(types))))
                                 \o <<":", " ">> \o Head(types) \o <<";">>),
                  symbols, Tail(types))

\* PascalCodeGenerator._generate_var_section
GenerateVarSection(G, symbols) ==
    LET G1 == VarSymbols(G, symbols)
        G2 == IF DeclaredTypes(symbols) = {} THEN G1
              ELSE AddLine(VarLines(AddLine(G1, <<"V", "A", "R">>), symbols,
                                    Sorted(DeclaredTypes(symbols))),
                           <<>>)
    IN  Catch(G2, <<"VAR section failed">>, -1)

\* _generate_action, output form: the loop over parts
RECURSIVE OutputParts(_)
OutputParts(parts) ==
    IF parts = <<>> THEN <<>>
    ELSE LET part == Strip(Head(parts))
         IN  (IF part = <<>> THEN <<>>
              ELSE IF MatchesQuoted(part)
              THEN <<PascalString(Slice(part, 2, Len(part) - 1))>>
              ELSE IF IsIdentifier(part) THEN <<part>>
              ELSE <<PascalString(part)>>) \o OutputParts(Tail(parts))

\* _generate_action, assignment of a quoted text: the text between the quotes
SameQuotes(expression, q) == StartsWith(expression, q) /\ EndsWith(expression, q)

QuotedInner(expression) ==
    IF SameQuotes(expression, <<"\"">>) THEN Slice(expression, 2, Len(expression) - 1)
    ELSE IF SameQuotes(expression, <<"'">>) THEN Slice(expression, 2, Len(expression) - 1)
    ELSE expression

\* PascalCodeGenerator._generate_action
GenerateAction(G, content_arg, line) ==
    LET content == Replace(Strip(content_arg), <<"!", "=">>, <<"<", ">">>)
        vars_str == Strip(From(content, 6))
        var_names == StripNonEmpty(SplitCommaSpace(vars_str))
        output_content == Strip(From(content, 7))
        assignment_match == AssignmentPattern(content)
        expression == Strip(assignment_match.value)
        G1 ==
          IF content_arg \in {NoneText, <<>>}
          THEN RecordError(G, <<"empty action content">>, line, -1)
          ELSE IF StartsWith(content, <<"Cyr_VE", "cyr_ve", "cyr_o", "cyr_de", ":">>)
          THEN IF vars_str = <<>>
               THEN RecordError(G, <<"empty variable list in input">>, line, -1)
               ELSE IF var_names # <<>>
               THEN AddLine(G, <<"r", "e", "a", "d", "l", "n", "(">> \o Join(<<",", " ">>, var_names) \o <<")", ";">>)
               ELSE G
          ELSE IF StartsWith(content, <<"Cyr_VE", "cyr_yeru", "cyr_ve", "cyr_o", "cyr_de", ":">>)
          THEN IF output_content = <<>> THEN AddLine(G, <<"w", "r", "i", "t", "e", "l", "n", "(", ")", ";">>)
               ELSE AddLine(G, <<"w", "r", "i", "t", "e", "l", "n", "(">>
                                 \o Join(<<",", " ">>, OutputParts(SplitComma(output_content)))
                                 \o <<")", ";">>)
          ELSE IF assignment_match.ok
          THEN IF MatchesQuoted(expression)
               THEN AddLine(G, assignment_match.name \o <<" ", ":", "=", " ">>
                       \o PascalString(QuotedInner(expression))
                       \o <<";">>)
               ELSE AddLine(G, assignment_match.name \o <<" ", ":", "=", " ">> \o expression \o <<";">>)
          ELSE IF content # <<>> THEN AddLine(G, content \o <<";">>)
          ELSE G
    IN  Catch(G1, <<"action failed">>, line)

\* the children of a node that have the given type, by index
ChildrenOfType(node, type) ==
    { i \in 1..Len(node.children) : node.children[i].type = type }

LastOf(indices) == CHOOSE i \in indices : \A k \in indices : k <= i

\* for child in node.children, in _generate_if, _generate_while and
\* _generate_repeat_until: child.value.replace raises when the value is None
ConditionRaises(node) ==
    \E i \in ChildrenOfType(node, "condition_content") :
        node.children[i].value = NoneText

ConditionOf(node) ==
    IF ChildrenOfType(node, "condition_content") = {} THEN <<>>
    ELSE Replace(node.children[LastOf(ChildrenOfType(node, "condition_content"))].value,
                 <<"!", "=">>, <<"<", ">">>)

RECURSIVE Visit(_, _, _)
RECURSIVE VisitEach(_, _, _, _)
RECURSIVE GenerateActions(_, _, _, _)

\* for stmt in children: self._visit(stmt), from the k-th child on
VisitEach(G, children, path, k) ==
    IF G.exc # "" \/ k > Len(children) THEN G
    ELSE VisitEach(Visit(G, children[k], Append(path, k)), children, path, k + 1)

\* the statements of the body child of the given type (the last such child)
VisitBody(G, node, path, type) ==
    LET b == LastOf(ChildrenOfType(node, type))
    IN  VisitEach(G, node.children[b].children, Append(path, b), 1)

\* PascalCodeGenerator._generate_if
GenerateIf(G, node, line, path) ==
    LET condition == ConditionOf(node)
        has_then == ChildrenOfType(node, "then_branch") # {}
        has_else == ChildrenOfType(node, "else_branch") # {}
        G1 == Shift(AddLine(AddLine(G, <<"I", "F", " ", "(">> \o condition \o <<")", " ", "T", "H", "E", "N">>), <<"B", "E", "G", "I", "N">>), 1)
        G2 == IF has_then THEN VisitBody(G1, node, path, "then_branch") ELSE G1
        G3 == AddLine(Shift(G2, -1), <<"E", "N", "D">>)
        G4 == IF has_else
              THEN AddLine(Shift(VisitBody(Shift(AddLine(AddLine(G3, <<"E", "L", "S", "E">>), <<"B", "E", "G", "I", "N">>), 1),
                                           node, path, "else_branch"),
                                 -1),
                           <<"E", "N", "D">>)
              ELSE G3
    IN  Catch(IF ConditionRaises(node) THEN [G EXCEPT !.exc = "AttributeError"]
              ELSE IF condition = <<>>
              THEN RecordError(G, <<"missing condition in IF">>, line, -1)
              ELSE AddLine(G4, <<";">>),
              <<"IF failed">>, line)

\* _generate_while: the first line of the loop, FOR when the condition
\* matched FOR_LOOP_PATTERN
LoopHead(condition, for_match) ==
    IF for_match.ok
    THEN <<"F", "O", "R", " ">> \o for_match.counter \o <<" ", ":", "=", " ">>
           \o ProcessStringLiterals(Strip(for_match.start)) \o <<" ">>
           \o Upper(for_match.direction) \o <<" ">>
           \o ProcessStringLiterals(Strip(for_match.end)) \o <<" ", "D", "O">>
    ELSE <<"W", "H", "I", "L", "E", " ", "(">> \o condition \o <<")", " ", "D", "O">>

\* _generate_while once the condition has been read
GenerateLoop(G, node, condition, line, path) ==
    IF condition = <<>>
    THEN RecordError(G, <<"missing loop condition">>, line, -1)
    ELSE IF ChildrenOfType(node, "while_body") = {}
    THEN RecordError(G, <<"missing loop body">>, line, -1)
    ELSE AddLine(Shift(VisitBody(Shift(AddLine(AddLine(G,
                                   LoopHead(condition, ForLoopPattern(condition))),
                                   <<"B", "E", "G", "I", "N">>), 1),
                                 node, path, "while_body"), -1),
                 <<"E", "N", "D", ";">>)

\* PascalCodeGenerator._generate_while
GenerateWhile(G, node, line, path) ==
    Catch(IF ConditionRaises(node) THEN [G EXCEPT !.exc = "AttributeError"]
          ELSE GenerateLoop(G, node, ConditionOf(node), line, path),
          <<"loop failed">>, line)

\* PascalCodeGenerator._generate_repeat_until
GenerateRepeatUntil(G, node, line, path) ==
    LET condition == ConditionOf(node)
        G1 == Shift(AddLine(G, <<"R", "E", "P", "E", "A", "T">>), 1)
        G2 == VisitBody(G1, node, path, "repeat_body")
    IN  Catch(IF ConditionRaises(node) THEN [G EXCEPT !.exc = "AttributeError"]
              ELSE IF ChildrenOfType(node, "repeat_body") = {}
              THEN RecordError(G, <<"missing REPEAT-UNTIL body">>, line, -1)
              ELSE IF condition = <<>>
              THEN RecordError(G, <<"missing UNTIL condition">>, line, -1)
              ELSE AddLine(Shift(G2, -1), <<"U", "N", "T", "I", "L", " ", "(">> \o condition \o <<")", ";">>),
              <<"REPEAT-UNTIL failed">>, line)

\* _visit, action_node: the loop over the children
GenerateActions(G, children, line, k) ==
    IF G.exc # "" \/ k > Len(children) THEN G
    ELSE GenerateActions(IF children[k].type = "action_content"
                         THEN GenerateAction(G, children[k].value, line)
                         ELSE G,
                         children, line, k + 1)

\* PascalCodeGenerator._visit
Visit(G, node, path) ==
    LET G0 == [G EXCEPT !.visited = Append(@, path)]
        G1 ==
          IF node.type = "program" THEN VisitEach(G0, node.children, path, 1)
          ELSE IF node.type \in {"start_node", "stop_node"} THEN G0
          ELSE IF node.type = "action_node"
          THEN GenerateActions(G0, node.children, node.line, 1)
          ELSE IF node.type = "if_statement" THEN GenerateIf(G0, node, node.line, path)
          ELSE IF node.type = "while_loop_node"
          THEN GenerateWhile(G0, node, node.line, path)
          ELSE IF node.type = "repeat_until_loop_node"
          THEN GenerateRepeatUntil(G0, node, node.line, path)
          ELSE IF node.type \in {"then_branch", "else_branch", "while_body", "repeat_body"}
          THEN VisitEach(G0, node.children, path, 1)
          ELSE IF node.type \in {"startuml_keyword", "enduml_keyword",
                                 "condition_content", "branch_label"}
          THEN G0
          ELSE VisitEach(G0, node.children, path, 1)
    IN  IF G.exc # "" THEN G
        ELSE Catch(G1, <<"node failed", node.type>>, node.line)

\* generate: for child in program_node.children, from the k-th child on
RECURSIVE VisitProgram(_, _, _)
VisitProgram(G, children, k) ==
    IF G.exc # "" \/ k > Len(children) THEN G
    ELSE VisitProgram(IF children[k].type \in {"startuml_keyword", "enduml_keyword"}
                      THEN G
                      ELSE Visit(G, children[k], <<k>>),
                      children, k + 1)

\* PascalCodeGenerator._validate_program_node
ValidateProgramNode(G, node) ==
    IF node = NoneNode
    THEN [ok |-> FALSE, G |-> RecordError(G, <<"program root not found">>, -1, -1)]
    ELSE IF node.type # "program"
    THEN [ok |-> FALSE,
          G  |-> RecordError(G, <<"expected a program node", node.type>>, -1, -1)]
    ELSE [ok |-> TRUE, G |-> G]

\* a generator that marks the symbols it has read as declared (the body of
\* SymbolsAfterGenerate is replaced by this one to see what the frame
\* properties catch)
SymbolsAfterGenerate_Marked(symbols) ==
    [i \in 1..Len(symbols) |-> [symbols[i] EXCEPT !.declared = TRUE]]

\* the symbol table after generate: _generate_var_section reads name and
\* type of each symbol and no routine of the generator writes a symbol
SymbolsAfterGenerate(symbols) == symbols

\* the messages of the recorded errors, in order
RECURSIVE Messages(_)
Messages(errors) ==
    IF errors = <<>> THEN <<>> ELSE <<Head(errors).message>> \o Messages(Tail(errors))

\* PascalCodeGenerator.generate.  result is what is returned: "missing tree"
\* and "critical" are the two fixed texts, "program" is the lines of
\* code_lines joined by newlines, after one comment line that joins the
\* messages of summary when there are errors
\* generate: the lines before the statements
GenerateHead(symbols) ==
    Shift(AddLine(GenerateVarSection(AddLine(AddLine(NewGen, <<"P", "R", "O", "G", "R", "A", "M", " ", "G", "e", "n", "e", "r", "a", "t", "e", "d", ";">>), <<>>),
                                     symbols),
                  <<"B", "E", "G", "I", "N">>), 1)

\* generate: the statements of the program node when it is valid
GenerateBody(v, ast_root) ==
    IF v.ok THEN VisitProgram(v.G, ast_root.children, 1) ELSE v.G

\* generate: the text returned by the try block
GenerateReturn(G) ==
    [G EXCEPT !.result = <<"program">>, !.summary = Messages(G.errors)]

\* generate: except Exception
GenerateExcept(G) ==
    IF G.exc = "" THEN G
    ELSE [RecordError([G EXCEPT !.exc = ""], <<"generation failed", G.exc>>, -1, -1)
            EXCEPT !.result = <<"critical">>, !.summary = <<>>]

Generate(ast_root, symbols) ==
    GenerateExcept(
        IF ast_root = NoneNode
        THEN [RecordError(NewGen, <<"AST root is missing">>, -1, -1)
                EXCEPT !.result = <<"missing tree">>]
        ELSE GenerateReturn(
                 AddLine(Shift(GenerateBody(ValidateProgramNode(GenerateHead(symbols),
                                                                ast_root),
                                            ast_root), -1),
                         <<"E", "N", "D", ".">>)))

(***************************************************************************)
(* Inputs of the scanner                                                   *)
(***************************************************************************)
MaxSrcFrags == 3

SrcFrags ==
    { <<"r", "e", "p", "e", "a", "t">>, <<"w", "h", "i", "l", "e">>, <<" ">>, <<"\n">>, <<":", "a", ";">>, <<":", "a">>, <<"(", "c", ")">>, <<"(", "c">>, <<";">>, <<")">>,
      <<"#">>, <<"x", "9">>, <<"@">>, <<"s", "t", "o", "p">> }

ScanSources(n) == {Concat(fs) : fs \in SeqsUpTo(SrcFrags, n)}

InitScan ==
    /\ pc = "lex"
    /\ lexer \in {NewLexer(s) : s \in ScanSources(MaxSrcFrags)}
    /\ parser = NewParser
    /\ sema = NewSema
    /\ gen = NewGen
    /\ ran = <<"scan">>

\* one pass through the body of the loop 'while self.current_char != NUL'
ScanStep ==
    /\ pc = "lex"
    /\ lexer.current_char # NUL
    /\ lexer' = ScanIteration(lexer)
    /\ UNCHANGED <<pc, parser, sema, gen, ran>>

\* the loop condition fails: scan returns len(self.errors) == 0
ScanFinish ==
    /\ pc = "lex"
    /\ lexer.current_char = NUL
    /\ pc' = "lexed"
    /\ UNCHANGED <<lexer, parser, sema, gen, ran>>

NextScan == ScanStep \/ ScanFinish

SpecScan == InitScan /\ [][NextScan]_vars

\* texts that may hold the character the scanner uses as its sentinel
MaxRawFrags == 3

RawFrags == { <<"s", "t", "o", "p">>, <<"r", "e", "p", "e", "a", "t">>, <<"w", "h", "i", "l", "e">>, <<" ">>, <<"\n">>, <<":", "a", ";">>, <<"(", "c", ")">>, <<"#">>, <<NUL>> }

RawSources(n) == {Concat(fs) : fs \in SeqsUpTo(RawFrags, n)}

InitScanRaw ==
    /\ pc = "lex"
    /\ lexer \in {NewLexer(s) : s \in RawSources(MaxRawFrags)}
    /\ parser = NewParser
    /\ sema = NewSema
    /\ gen = NewGen
    /\ ran = <<"scan">>

SpecScanRaw == InitScanRaw /\ [][NextScan]_vars

(***************************************************************************)
(* Inputs of the parser: token sequences                                   *)
(***************************************************************************)
\* the lexeme (class, value, text) of each kind of token
Lexeme(kind) ==
    CASE kind = "@startuml"   -> <<ClsKeyword, 1, <<"@", "s", "t", "a", "r", "t", "u", "m", "l">>>>
      [] kind = "start"       -> <<ClsKeyword, 2, <<"s", "t", "a", "r", "t">>>>
      [] kind = "stop"        -> <<ClsKeyword, 3, <<"s", "t", "o", "p">>>>
      [] kind = "if"          -> <<ClsKeyword, 4, <<"i", "f">>>>
      [] kind = "then"        -> <<ClsKeyword, 5, <<"t", "h", "e", "n">>>>
      [] kind = "else"        -> <<ClsKeyword, 6, <<"e", "l", "s", "e">>>>
      [] kind = "endif"       -> <<ClsKeyword, 7, <<"e", "n", "d", "i", "f">>>>
      [] kind = "while"       -> <<ClsKeyword, 8, <<"w", "h", "i", "l", "e">>>>
      [] kind = "is"          -> <<ClsKeyword, 9, <<"i", "s">>>>
      [] kind = "endwhile"    -> <<ClsKeyword, 10, <<"e", "n", "d", "w", "h", "i", "l", "e">>>>
      [] kind = "repeat"      -> <<ClsKeyword, 11, <<"r", "e", "p", "e", "a", "t">>>>
      [] kind = "repeatwhile" -> <<ClsKeyword, 12, <<"r", "e", "p", "e", "a", "t", " ", "w", "h", "i", "l", "e">>>>
      [] kind = "@enduml"     -> <<ClsKeyword, 13, <<"@", "e", "n", "d", "u", "m", "l">>>>
      [] kind = "("           -> <<ClsDelim, 1, <<"(">>>>
      [] kind = ")"           -> <<ClsDelim, 2, <<")">>>>
      [] kind = ";"           -> <<ClsDelim, 3, <<";">>>>
      [] kind = ":"           -> <<ClsDelim, 4, <<":">>>>
      [] kind = "ACTION"      -> <<ClsAction, 1, <<"x", " ", ":", "=", " ", "1">>>>
      [] kind = "COND"        -> <<ClsCond, 1, <<"x", " ", "<", " ", "2">>>>
      [] kind = "LABEL"       -> <<ClsCond, 2, <<"y", "e", "s">>>>

\* the i-th token of a sequence of kinds, laid out on one line
TokensOf(kinds) ==
    [i \in 1..Len(kinds) |->
        [class |-> Lexeme(kinds[i])[1], value |-> Lexeme(kinds[i])[2],
         text  |-> Lexeme(kinds[i])[3], line |-> 1, pos |-> i]]

MaxParseFrags == 3

ParseFrags ==
    { <<":", "ACTION", ";">>,
      <<"if", "(", "COND", ")", "then", "(", "LABEL", ")">>,
      <<"else", "(", "LABEL", ")">>,
      <<"endif">>,
      <<"while", "(", "COND", ")", "is", "(", "LABEL", ")">>,
      <<"endwhile">>,
      <<"(", "LABEL", ")">>,
      <<"repeat">>,
      <<"repeatwhile", "(", "COND", ")", "is">> }

\* programs made of fragments between '@startuml' 'start' and 'stop' '@enduml'
ParsePrograms(n) ==
    { <<"@startuml", "start">> \o Concat(fs) \o <<"stop", "@enduml">> :
        fs \in SeqsUpTo(ParseFrags, n) }

\* a program of up to n fragments or a proper prefix of one, or a program of
\* fewer fragments with one token removed
ParseInputs(n) ==
    UNION { {p} \cup { Slice(p, 1, i) : i \in 0..(Len(p) - 1) } : p \in ParsePrograms(n) }
        \cup UNION { { Slice(p, 1, i - 1) \o Slice(p, i + 1, Len(p)) : i \in 1..Len(p) }
                     : p \in ParsePrograms(n - 1) }

\* a scanner whose lexeme list is the given token sequence
LexerWithTokens(tokens) == [NewLexer(<<>>) EXCEPT !.lex_table = tokens]

InitParse ==
    /\ pc = "parse_new"
    /\ lexer \in {LexerWithTokens(TokensOf(ks)) : ks \in ParseInputs(MaxParseFrags)}
    /\ parser = NewParser
    /\ sema = NewSema
    /\ gen = NewGen
    /\ ran = <<"parse">>

\* parse(): reset, then parse_program up to its statement loop
ParseBegin ==
    /\ pc = "parse_new"
    /\ parser' = ProgramHeader(parser)
    /\ pc' = IF parser'.stack = <<>> THEN "parsed" ELSE "parse"
    /\ UNCHANGED <<lexer, sema, gen, ran>>

\* one pass of the statement loop of the innermost rule
ParseStatementStep ==
    /\ pc = "parse"
    /\ ~LoopOver(parser)
    /\ parser' = StatementStep(parser)
    /\ pc' = IF parser'.raised THEN "parsed" ELSE "parse"
    /\ UNCHANGED <<lexer, sema, gen, ran>>

IfThenEnd ==
    /\ pc = "parse"
    /\ LoopOver(parser)
    /\ TopFrame(parser).rule = "if" /\ TopFrame(parser).phase = "then"
    /\ parser' = IfAfterThen(parser)
    /\ UNCHANGED <<pc, lexer, sema, gen, ran>>

IfElseEnd ==
    /\ pc = "parse"
    /\ LoopOver(parser)
    /\ TopFrame(parser).rule = "if" /\ TopFrame(parser).phase = "else"
    /\ parser' = IfAfterElse(parser)
    /\ UNCHANGED <<pc, lexer, sema, gen, ran>>

WhileEnd ==
    /\ pc = "parse"
    /\ LoopOver(parser)
    /\ TopFrame(parser).rule = "while"
    /\ parser' = WhileAfterBody(parser)
    /\ UNCHANGED <<pc, lexer, sema, gen, ran>>

RepeatEnd ==
    /\ pc = "parse"
    /\ LoopOver(parser)
    /\ TopFrame(parser).rule = "repeat"
    /\ parser' = RepeatAfterBody(parser)
    /\ UNCHANGED <<pc, lexer, sema, gen, ran>>

\* parse_program returns; parse returns len(self.errors) == 0
ProgramEnd ==
    /\ pc = "parse"
    /\ LoopOver(parser)
    /\ TopFrame(parser).rule = "program"
    /\ parser' = ProgramAfterBody(parser)
    /\ pc' = "parsed"
    /\ UNCHANGED <<lexer, sema, gen, ran>>

NextParse ==
    \/ ParseBegin
    \/ ParseStatementStep
    \/ IfThenEnd
    \/ IfElseEnd
    \/ WhileEnd
    \/ RepeatEnd
    \/ ProgramEnd

SpecParse == InitParse /\ [][NextParse]_vars

\* token sequences in which tokens follow the '@enduml' of a program
MaxTailFrags == 2

MaxTailTokens == 1

TailKinds == {"stop", "@enduml", "endif", ";"}

TailInputs(n, m) ==
    { p \o t : p \in ParsePrograms(n), t \in SeqsUpTo(TailKinds, m) }

InitParseTail ==
    /\ pc = "parse_new"
    /\ lexer \in {LexerWithTokens(TokensOf(ks)) : ks \in TailInputs(MaxTailFrags, MaxTailTokens)}
    /\ parser = NewParser
    /\ sema = NewSema
    /\ gen = NewGen
    /\ ran = <<"parse">>

SpecParseTail == InitParseTail /\ [][NextParse]_vars

(***************************************************************************)
(* Calls of SymbolTable.define                                             *)
(***************************************************************************)
MaxDefines == 3

DefineNames == { <<"a">>, <<"b">> }

\* types infer_type returns
DefineTypes == { <<"i", "n", "t", "e", "g", "e", "r">>, <<"r", "e", "a", "l">>, <<"s", "t", "r", "i", "n", "g">> }

InitDefine ==
    /\ pc = "define"
    /\ lexer = NewLexer(<<>>)
    /\ parser = NewParser
    /\ sema = NewSema
    /\ gen = NewGen
    /\ ran = <<>>

\* one call of define; ran keeps the name and the type of each call
DefineCall ==
    /\ pc = "define"
    /\ Len(ran) < MaxDefines
    /\ \E name \in DefineNames, var_type \in DefineTypes, is_array \in BOOLEAN,
          array_size \in {NoneSize, <<1, 5>>}, declared \in BOOLEAN,
          line \in {NoneNum, 2} :
          /\ sema' = [sema EXCEPT !.symbol_table =
                         Define(@, name, var_type, is_array, array_size, declared,
                                line, line)]
          /\ ran' = Append(ran, [name |-> name, var_type |-> var_type])
    /\ UNCHANGED <<pc, lexer, parser, gen>>

NextDefine == DefineCall

SpecDefine == InitDefine /\ [][NextDefine]_vars

(***************************************************************************)
(* Inputs of the semantic analyzer and of the code generator: trees as     *)
(* the parser builds them                                                  *)
(***************************************************************************)
Tree(node_type, value, line, pos, children) ==
    [Node(node_type, value, line, pos) EXCEPT !.children = children]

\* parse_action
ActionStmt(content, line) ==
    Tree("action_node", NoneText, line, 0,
         << Node("action_content", content, line, 1) >>)

\* a body list becomes a child only when it is not empty
BodyNode(node_type, body) ==
    IF body = <<>> THEN <<>> ELSE << Tree(node_type, NoneText, 0, 0, body) >>

\* parse_if_statement
IfStmt(condition, line, then_body) ==
    Tree("if_statement", NoneText, line, 0,
         << Node("condition_content", condition, line, 4),
            Node("branch_label", <<"y", "e", "s">>, line, 12) >>
            \o BodyNode("then_branch", then_body))

\* parse_while_loop
WhileStmt(condition, line, body) ==
    Tree("while_loop_node", NoneText, line, 0,
         << Node("condition_content", condition, line, 7),
            Node("branch_label", <<"y", "e", "s">>, line, 15) >>
            \o BodyNode("while_body", body)
            \o << Node("branch_label", <<"n", "o">>, line + 1, 10) >>)

\* parse_repeat_until_loop
RepeatStmt(condition, line, body) ==
    Tree("repeat_until_loop_node", NoneText, line, 0,
         BodyNode("repeat_body", body)
            \o << Node("condition_content", condition, line + 1, 14),
                  Node("repeat_until_branch_label", <<"n", "o">>, line + 1, 20) >>)

\* parse_program
ProgramOf(statements) ==
    Tree("program", NoneText, 1, 1,
         << Node("startuml_keyword", <<"@", "s", "t", "a", "r", "t", "u", "m", "l">>, 1, 0),
            Node("start_node", <<"s", "t", "a", "r", "t">>, 2, 0) >>
            \o statements
            \o << Node("stop_node", <<"s", "t", "o", "p">>, 9, 0),
                  Node("enduml_keyword", <<"@", "e", "n", "d", "u", "m", "l">>, 10, 0) >>)

MaxSemaStmts == 2

SemaActions ==
    { <<"a", "[", "1", "]", " ", ":", "=", " ", "5">>, <<"b", " ", ":", "=", " ", "a">>, <<"x", " ", ":", "=", " ", "1">>, <<"x", " ", ":", "=", " ", "2", ".", "5">>, <<"x", " ", ":", "=", " ", "\"", "s", "\"">>, <<"y", " ", ":", "=", " ", "x", " ", "/", " ", "2">>,
      <<"Cyr_VE", "cyr_ve", "cyr_o", "cyr_de", ":", " ", "a", ",", " ", "x">>, <<"Cyr_VE", "cyr_yeru", "cyr_ve", "cyr_o", "cyr_de", ":", " ", "b", ",", " ", "\"", "t", "\"">>, <<"f", "o", "o">> }

SemaConds == { <<"y", " ", "<", " ", "x", " ", "+", " ", "y">>, <<"x", " ", "!", "=", " ", "w", "h", "i", "l", "e">>, <<"i", " ", ":", "=", " ", "1", " ", "t", "o", " ", "n">>, <<"b", " ", "=", " ", "b">> }

SemaStmts(line) ==
    { ActionStmt(t, line) : t \in SemaActions }
        \cup { IfStmt(c, line, <<>>) : c \in SemaConds }
        \cup { WhileStmt(c, line, <<>>) : c \in SemaConds }

\* the programs of k statements, the i-th on line i + 2
RECURSIVE StmtLists(_, _)
StmtLists(Stmts(_), k) ==
    IF k = 0 THEN { <<>> }
    ELSE { Append(p, s) : p \in StmtLists(Stmts, k - 1), s \in Stmts(k + 2) }

SemaTrees(n) == UNION { { ProgramOf(p) : p \in StmtLists(SemaStmts, k) } : k \in 0..n }

InitSema ==
    /\ pc = "analyze_new"
    /\ lexer = NewLexer(<<>>)
    /\ parser \in { [NewParser EXCEPT !.root = t] : t \in SemaTrees(MaxSemaStmts) }
    /\ sema = NewSema
    /\ gen = NewGen
    /\ ran = <<"analyze">>

\* analyze: the reset, up to the first _visit
AnalyzeBegin ==
    /\ pc = "analyze_new"
    /\ sema' = AnalyzeStart(parser.root)
    /\ pc' = "analyze"
    /\ UNCHANGED <<lexer, parser, gen, ran>>

\* _visit on one node
AnalyzeVisit ==
    /\ pc = "analyze"
    /\ sema.todo # <<>>
    /\ sema' = VisitNext(sema)
    /\ UNCHANGED <<pc, lexer, parser, gen, ran>>

\* analyze returns the symbol table, the errors and the warnings
AnalyzeEnd ==
    /\ pc = "analyze"
    /\ sema.todo = <<>>
    /\ pc' = "analyzed"
    /\ UNCHANGED <<lexer, parser, sema, gen, ran>>

NextSema == AnalyzeBegin \/ AnalyzeVisit \/ AnalyzeEnd

SpecSema == InitSema /\ [][NextSema]_vars

MaxGenStmts == 2

\* statements with every way of failing that _visit meets: a payload or a
\* condition that is None or empty, an empty input list, a missing body
GenStmts(line) ==
    { ActionStmt(<<"x", " ", ":", "=", " ", "1">>, line), ActionStmt(NoneText, line),
      ActionStmt(<<"Cyr_VE", "cyr_ve", "cyr_o", "cyr_de", ":">>, line),
      IfStmt(<<"x", " ", "<", " ", "2">>, line, << ActionStmt(NoneText, line + 1),
                               ActionStmt(<<"y", " ", ":", "=", " ", "\"", "a", "\"">>, line + 1) >>),
      IfStmt(NoneText, line, << ActionStmt(<<"x", " ", ":", "=", " ", "1">>, line + 1) >>),
      WhileStmt(<<"i", " ", ":", "=", " ", "1", " ", "t", "o", " ", "3">>, line, << ActionStmt(<<"x", " ", ":", "=", " ", "i">>, line + 1) >>),
      WhileStmt(<<"i", " ", ":", "=", " ", "n", " ", "d", "o", "w", "n", "t", "o", " ", "1">>, line, <<>>),
      WhileStmt(<<"x", " ", "!", "=", " ", "2">>, line, << ActionStmt(<<"x", " ", ":", "=", " ", "2">>, line + 1) >>),
      WhileStmt(<<"x", " ", "<", " ", "2">>, line, <<>>),
      WhileStmt(NoneText, line, << ActionStmt(<<"x", " ", ":", "=", " ", "1">>, line + 1) >>),
      WhileStmt(<<>>, line, << ActionStmt(<<"x", " ", ":", "=", " ", "1">>, line + 1) >>),
      RepeatStmt(<<"x", " ", "<", " ", "2">>, line, << ActionStmt(<<"x", " ", ":", "=", " ", "1">>, line + 1) >>),
      RepeatStmt(<<"x", " ", "<", " ", "2">>, line, <<>>),
      Tree("note", NoneText, line, 0, << ActionStmt(<<"x", " ", ":", "=", " ", "3">>, line) >>) }

\* a missing root, roots that are not a program node, and programs
GenTrees(n) ==
    { NoneNode, ActionStmt(<<"x", " ", ":", "=", " ", "1">>, 1), WhileStmt(<<"x", " ", "<", " ", "2">>, 1, <<>>) }
        \cup UNION { { ProgramOf(p) : p \in StmtLists(GenStmts, k) } : k \in 0..n }

\* symbol tables: empty, with an array, a reserved word and two scalars,
\* with a symbol that has no name, with reserved words only, and with
\* several names of one type, an array with bounds and a scalar whose base
\* type is the type of an array
GenTables ==
    { <<>>,
      << Symbol(<<"B", "e", "g", "i", "n">>, <<"i", "n", "t", "e", "g", "e", "r">>, FALSE, <<0, 100>>, TRUE, 3, 1),
         Symbol(<<"t", "o">>, <<"r", "e", "a", "l">>, FALSE, <<0, 100>>, TRUE, 3, 1) >>,
      << Symbol(<<"b">>, <<"r", "e", "a", "l">>, FALSE, <<0, 100>>, TRUE, 3, 1),
         Symbol(<<"s">>, <<"s", "t", "r", "i", "n", "g">>, FALSE, <<0, 100>>, TRUE, 3, 1),
         Symbol(<<"B">>, <<"r", "e", "a", "l">>, FALSE, <<0, 100>>, FALSE, 4, 1),
         Symbol(<<"m">>, <<"r", "e", "a", "l">>, TRUE, <<1, 5>>, TRUE, 4, 1),
         Symbol(<<"a">>, <<"r", "e", "a", "l">>, FALSE, <<0, 100>>, TRUE, 5, 1),
         Symbol(<<"c">>, <<"a", "r", "r", "a", "y", "[", "1", ".", ".", "5", "]", " ", "o", "f", " ", "r", "e", "a", "l">>, FALSE, <<0, 100>>, TRUE, 5, 1),
         Symbol(<<"E", "n", "d">>, <<"r", "e", "a", "l">>, FALSE, <<0, 100>>, TRUE, 5, 1) >>,
      << Symbol(<<"x">>, <<"i", "n", "t", "e", "g", "e", "r">>, FALSE, <<0, 100>>, TRUE, 3, 1),
         Symbol(<<"a">>, <<"r", "e", "a", "l">>, TRUE, <<0, 100>>, TRUE, 3, 1),
         Symbol(<<"t", "o">>, <<"i", "n", "t", "e", "g", "e", "r">>, FALSE, <<0, 100>>, FALSE, 4, 1),
         Symbol(<<"i">>, <<"i", "n", "t", "e", "g", "e", "r">>, FALSE, <<0, 100>>, TRUE, 4, 1) >>,
      << Symbol(NoneText, <<"i", "n", "t", "e", "g", "e", "r">>, FALSE, <<0, 100>>, FALSE, NoneNum, NoneNum),
         Symbol(<<"y">>, <<"s", "t", "r", "i", "n", "g">>, FALSE, <<0, 100>>, TRUE, 3, 1) >> }

InitGen ==
    /\ pc = "gen_new"
    /\ lexer = NewLexer(<<>>)
    /\ parser \in { [NewParser EXCEPT !.root = t] : t \in GenTrees(MaxGenStmts) }
    /\ sema \in { [NewSema EXCEPT !.symbol_table = t] : t \in GenTables }
    /\ gen = NewGen
    /\ ran = <<"generate">>

\* PascalCodeGenerator(ast_root, symbol_table).generate()
GenerateCall ==
    /\ pc = "gen_new"
    /\ gen' = Generate(parser.root, sema.symbol_table)
    /\ sema' = [sema EXCEPT !.symbol_table = SymbolsAfterGenerate(@)]
    /\ pc' = "generated"
    /\ UNCHANGED <<lexer, parser, ran>>

NextGen == GenerateCall

SpecGen == InitGen /\ [][NextGen]_vars

(***************************************************************************)
(* The generate-pascal pipeline: backend/app.py, generate_pascal.  ran     *)
(* lists the stages that have been started.                                *)
(***************************************************************************)
MaxPipeFrags == 2

PipeFrags ==
    { <<":", "x", " ", ":", "=", " ", "1", ";", "\n">>, <<":", "x", " ", ":", "=", " ", "y", ";", "\n">>, <<":", "f", "o", "o", ";", "\n">>, <<"#", "\n">>, <<"e", "n", "d", "i", "f", "\n">>, <<"w", "h", "i", "l", "e", " ", "(", "x", " ", "<", " ", "2", ")", "\n">>,
      <<"i", "f", " ", "(", "x", " ", "<", " ", "2", ")", " ", "t", "h", "e", "n", " ", "(", "y", "e", "s", ")", "\n", ":", "x", " ", ":", "=", " ", "2", ";", "\n", "e", "l", "s", "e", " ", "(", "n", "o", ")", "\n", "e", "n", "d", "i", "f", "\n">>,
      <<"w", "h", "i", "l", "e", " ", "(", "i", " ", ":", "=", " ", "1", " ", "t", "o", " ", "3", ")", " ", "i", "s", " ", "(", "y", "e", "s", ")", "\n", ":", "x", " ", ":", "=", " ", "i", ";", "\n", "e", "n", "d", "w", "h", "i", "l", "e", " ", "(", "n", "o", ")", "\n">>,
      <<"r", "e", "p", "e", "a", "t", "\n", ":", "x", " ", ":", "=", " ", "1", ";", "\n", "r", "e", "p", "e", "a", "t", " ", "w", "h", "i", "l", "e", " ", "(", "x", " ", "<", " ", "2", ")", " ", "i", "s", " ", "(", "n", "o", ")", "\n">> }

PipeSources(n) ==
    { <<"@", "s", "t", "a", "r", "t", "u", "m", "l", "\n", "s", "t", "a", "r", "t", "\n">> \o Concat(fs) \o <<"s", "t", "o", "p", "\n", "@", "e", "n", "d", "u", "m", "l">> :
        fs \in SeqsUpTo(PipeFrags, n) }

Init ==
    /\ pc = "lex"
    /\ lexer \in { NewLexer(s) : s \in PipeSources(MaxPipeFrags) }
    /\ parser = NewParser
    /\ sema = NewSema
    /\ gen = NewGen
    /\ ran = <<"scan">>

\* if not lexer_success: the response with the lexical errors, or step 2
AppAfterScan ==
    /\ pc = "lexed"
    /\ IF LexerSuccess(lexer)
       THEN pc' = "parse_new" /\ ran' = Append(ran, "parse")
       ELSE pc' = "done" /\ ran' = ran
    /\ UNCHANGED <<lexer, parser, sema, gen>>

\* if not parse_success: the response with the parser errors, or step 4
AppAfterParse ==
    /\ pc = "parsed"
    /\ IF ParserSuccess(parser) /\ ~parser.raised
       THEN pc' = "analyze_new" /\ ran' = Append(ran, "analyze")
       ELSE pc' = "done" /\ ran' = ran
    /\ UNCHANGED <<lexer, parser, sema, gen>>

\* all_errors after step 4, with the warnings counted as errors (the body
\* of AllErrors is replaced by this one to see what the properties of the
\* pipeline catch)
AllErrors_WithWarnings(S) == GetAllIssues(S)

\* all_errors after step 4: the issues of type error, collected when the
\* analyzer returned errors or warnings
AllErrors(S) ==
    IF S.errors # <<>> \/ S.warnings # <<>>
    THEN SelectSeq(GetAllIssues(S), LAMBDA issue : issue.type = "error")
    ELSE <<>>

\* if all_errors: the response with the semantic errors, or step 5
AppAfterAnalyze ==
    /\ pc = "analyzed"
    /\ IF AllErrors(sema) = <<>>
       THEN pc' = "gen_new" /\ ran' = Append(ran, "generate")
       ELSE pc' = "done" /\ ran' = ran
    /\ UNCHANGED <<lexer, parser, sema, gen>>

\* the response after step 5
AppRespond ==
    /\ pc = "generated"
    /\ pc' = "done"
    /\ UNCHANGED <<lexer, parser, sema, gen, ran>>

Next ==
    \/ ScanStep
    \/ ScanFinish
    \/ AppAfterScan
    \/ ParseBegin
    \/ ParseStatementStep
    \/ IfThenEnd
    \/ IfElseEnd
    \/ WhileEnd
    \/ RepeatEnd
    \/ ProgramEnd
    \/ AppAfterParse
    \/ AnalyzeBegin
    \/ AnalyzeVisit
    \/ AnalyzeEnd
    \/ AppAfterAnalyze
    \/ GenerateCall
    \/ AppRespond

Spec == Init /\ [][Next]_vars


(***************************************************************************)
(* Analysis and generation of one tree, as steps 4 and 5 of the handler    *)
(* run them: the generator is built when the analysis gave no error        *)
(***************************************************************************)
MaxLowerStmts == 1

LowerActions ==
    { <<"x", " ", ":", "=", " ", "1">>, <<"x", " ", "=", " ", "1">>, <<"a", "[", "1", "]", " ", ":", "=", " ", "5">>, <<"a", "[", "1", "]", " ", "=", " ", "5">>, <<"a", "[", "i", "]", " ", "=", " ", "x">>,
      <<"s", " ", ":", "=", " ", "\"", "t", "w", "o", " ", "w", "o", "r", "d", "s", "\"">>, <<"s", " ", "=", " ", "\"", "i", "t", "'", "s", "\"">>, <<"t", " ", ":", "=", " ", "'", "q", "'">>, <<"x", " ", ":", "=", " ", "y", " ", "!", "=", " ", "1">>,
      <<"Cyr_VE", "cyr_ve", "cyr_o", "cyr_de", ":", " ", "n", ",", " ", "m">>, <<"Cyr_VE", "cyr_ve", "cyr_o", "cyr_de", ":">>, <<"Cyr_VE", "cyr_yeru", "cyr_ve", "cyr_o", "cyr_de", ":", " ", "x", ",", " ", "\"", "t", "\"">>, <<"Cyr_VE", "cyr_yeru", "cyr_ve", "cyr_o", "cyr_de", ":">>, <<"f", "o", "o">> }

LowerConds == { <<"i", " ", ":", "=", " ", "1", " ", "t", "o", " ", "n">>, <<"k", " ", ":", "=", " ", "n", " ", "d", "o", "w", "n", "t", "o", " ", "1">>, <<"x", " ", "<", " ", "2">> }

\* the statements the parser builds: a loop without statements has no body
LowerStmts(line) ==
    { ActionStmt(t, line) : t \in LowerActions }
        \cup { IfStmt(c, line, << ActionStmt(<<"x", " ", ":", "=", " ", "1">>, line + 1) >>) : c \in LowerConds }
        \cup { WhileStmt(c, line, << ActionStmt(<<"x", " ", ":", "=", " ", "1">>, line + 1) >>) : c \in LowerConds }
        \cup { WhileStmt(c, line, <<>>) : c \in LowerConds }
        \cup { RepeatStmt(c, line, << ActionStmt(<<"x", " ", ":", "=", " ", "1">>, line + 1) >>) : c \in LowerConds }
        \cup { RepeatStmt(c, line, <<>>) : c \in LowerConds }

LowerTrees(n) == UNION { { ProgramOf(p) : p \in StmtLists(LowerStmts, k) } : k \in 0..n }

InitLower ==
    /\ pc = "analyze_new"
    /\ lexer = NewLexer(<<>>)
    /\ parser \in { [NewParser EXCEPT !.root = t] : t \in LowerTrees(MaxLowerStmts) }
    /\ sema = NewSema
    /\ gen = NewGen
    /\ ran = <<"analyze">>

NextLower ==
    \/ AnalyzeBegin
    \/ AnalyzeVisit
    \/ AnalyzeEnd
    \/ AppAfterAnalyze
    \/ GenerateCall
    \/ AppRespond

SpecLower == InitLower /\ [][NextLower]_vars

(***************************************************************************)
(* Scan and parse of programs with a while loop inside a repeat loop       *)
(***************************************************************************)
MaxNestFrags == 3

NestRepeat == <<"r", "e", "p", "e", "a", "t", "\n">>

NestWhile == <<"w", "h", "i", "l", "e", " ", "(", "x", " ", "<", " ", "2", ")", " ", "i", "s", " ", "(", "y", "e", "s", ")", "\n", ":", "x", " ", ":", "=", " ", "1", ";", "\n", "e", "n", "d", "w", "h", "i", "l", "e", " ", "(", "n", "o", ")", "\n">>

NestUntil == <<"r", "e", "p", "e", "a", "t", " ", "w", "h", "i", "l", "e", " ", "(", "y", " ", "<", " ", "3", ")", " ", "i", "s", " ", "(", "n", "o", ")", "\n">>

NestAction == <<":", "y", " ", ":", "=", " ", "1", ";", "\n">>

NestFrags == { NestRepeat, NestWhile, NestUntil, NestAction }

NestProgram(fs) == <<"@", "s", "t", "a", "r", "t", "u", "m", "l", "\n", "s", "t", "a", "r", "t", "\n">> \o Concat(fs) \o <<"s", "t", "o", "p", "\n", "@", "e", "n", "d", "u", "m", "l">>

NestSources(n) == { NestProgram(fs) : fs \in SeqsUpTo(NestFrags, n) }

InitNest ==
    /\ pc = "lex"
    /\ lexer \in { NewLexer(s) : s \in NestSources(MaxNestFrags) }
    /\ parser = NewParser
    /\ sema = NewSema
    /\ gen = NewGen
    /\ ran = <<"scan">>

NextNest ==
    \/ ScanStep
    \/ ScanFinish
    \/ AppAfterScan
    \/ ParseBegin
    \/ ParseStatementStep
    \/ WhileEnd
    \/ RepeatEnd
    \/ ProgramEnd

SpecNest == InitNest /\ [][NextNest]_vars
(***************************************************************************)
(* Properties of the parser                                                *)
(***************************************************************************)
\* the number of nodes of the given types in a list of trees
RECURSIVE CountNodes(_, _)
CountNodes(nodes, types) ==
    IF nodes = <<>> THEN 0
    ELSE (IF Head(nodes).type \in types THEN 1 ELSE 0)
         + CountNodes(Head(nodes).children, types)
         + CountNodes(Tail(nodes), types)

StatementTypes ==
    {"action_node", "if_statement", "while_loop_node", "repeat_until_loop_node"}

\* programs of the grammar whose loops carry no trailing branch label
C2_Programs ==
    { TokensOf(ks) : ks \in
        { <<"@startuml", "start",
            "while", "(", "COND", ")", "is", "(", "LABEL", ")", "endwhile",
            "stop", "@enduml">>,
          <<"@startuml", "start",
            "while", "(", "COND", ")", "is", "(", "LABEL", ")",
            ":", "ACTION", ";", "endwhile",
            "stop", "@enduml">>,
          <<"@startuml", "start",
            "repeat", "repeatwhile", "(", "COND", ")", "is",
            "stop", "@enduml">>,
          <<"@startuml", "start",
            "repeat", ":", "ACTION", ";", "repeatwhile", "(", "COND", ")", "is",
            "stop", "@enduml">> } }

\* C2: the trailing branch label of a loop is optional: an otherwise valid
\* program whose 'endwhile' (or whose 'repeatwhile' '(' COND ')' 'is') is not
\* followed by '(' label ')' is parsed with zero diagnostics, so parse()
\* returns success.
C2_TrailingLabelOptional ==
    (pc = "parsed" /\ lexer.lex_table \in C2_Programs) => ParserSuccess(parser)

C5_ParseTerminates ==
    [][(pc = "parse" /\ pc' \in {"parse", "parsed"}) =>
            /\ parser'.position >= parser.position
            /\ (Len(parser'.stack) < Len(parser.stack)
                   /\ TopFrame(parser).rule # "program"
                   => parser'.position > TopFrame(parser).start)
            /\ (~LoopOver(parser) =>
                   /\ (ParseStatement(parser).kind # "none"
                          => parser'.position > parser.position)
                   /\ (ParseStatement(parser).kind = "none"
                          /\ TopFrame(parser).rule = "program"
                          => parser'.position = parser.position + 1)
                   /\ (ParseStatement(parser).kind = "none"
                          /\ TopFrame(parser).rule # "program"
                          => /\ Len(parser'.stack) = Len(parser.stack)
                             /\ TopFrame(parser').broken))
            /\ parser'.position <= Len(Toks)
            /\ Len(parser'.stack) <= parser'.position
            /\ (pc' = "parse" => parser'.stack # <<>>)]_vars

\* C5 witness: the statement loop of a rule nested in another rule has
\* stopped on a failed statement, after the program loop has skipped a token
C5_Witness ==
    /\ pc = "parse"
    /\ Len(parser.stack) = 3
    /\ TopFrame(parser).broken
    /\ \E i \in 1..Len(parser.errors) : parser.errors[i].message = "unexpected token"
    /\ parser.stack[1].body = <<>>
    /\ parser.stack[2].start > 2

(***************************************************************************)
(* Properties of the scanner                                               *)
(***************************************************************************)
\* C4: scan() terminates on every input text: each pass of the main loop,
\* also one that records a lexical error and runs the recovery skip, moves
\* the position forward by at least one character without leaving the text,
\* so the loop reaches the sentinel, where scan() returns.
C4_ScanTerminates ==
    [][(pc = "lex" /\ lexer.current_char # NUL) =>
            /\ lexer'.position > lexer.position
            /\ lexer'.position <= Len(lexer.source)
            /\ (lexer'.position < Len(lexer.source) - 1
                    => lexer'.current_char # NUL)
            /\ (lexer'.position >= Len(lexer.source) - 1
                    => lexer'.current_char = NUL)]_vars

\* C4 witness: a scan that recorded two lexical errors has returned
C4_Witness ==
    /\ pc = "lexed"
    /\ Len(lexer.errors) >= 2
    /\ \E i \in 1..Len(lexer.errors) :
          lexer.errors[i].message[1] = "unexpected character"

(***************************************************************************)
(* Properties of SymbolTable.define                                        *)
(***************************************************************************)
\* the types carried by the calls of define on one name, in order
DefinedTypes(name) ==
    LET calls == SelectSeq(ran, LAMBDA c : c.name = name)
    IN  [i \in 1..Len(calls) |-> calls[i].var_type]

\* in one step the base type of every symbol stays, or goes from integer
\* to real
BaseTypeOnlyWidens ==
    \A name \in DefineNames :
        Defined(sema.symbol_table, name) =>
            /\ Defined(sema'.symbol_table, name)
            /\ \/ Lookup(sema'.symbol_table, name).base_type
                    = Lookup(sema.symbol_table, name).base_type
               \/ /\ Lookup(sema.symbol_table, name).base_type = <<"i", "n", "t", "e", "g", "e", "r">>
                  /\ Lookup(sema'.symbol_table, name).base_type = <<"r", "e", "a", "l">>

\* a call with integer is followed by a call with real
IntegerThenReal(types) ==
    \E i, j \in 1..Len(types) : i < j /\ types[i] = <<"i", "n", "t", "e", "g", "e", "r">> /\ types[j] = <<"r", "e", "a", "l">>

WidenedWhenFirstInteger ==
    \A name \in DefineNames :
        LET types == DefinedTypes(name)
        IN  types # <<>> =>
              /\ Defined(sema.symbol_table, name)
              /\ Lookup(sema.symbol_table, name).base_type =
                    IF types[1] = <<"i", "n", "t", "e", "g", "e", "r">> /\ IntegerThenReal(types)
                    THEN <<"r", "e", "a", "l">> ELSE types[1]

WidenedWhenSomeInteger ==
    \A name \in DefineNames :
        LET types == DefinedTypes(name)
        IN  IntegerThenReal(types) =>
              /\ Defined(sema.symbol_table, name)
              /\ Lookup(sema.symbol_table, name).base_type = <<"r", "e", "a", "l">>

\* C8: over every sequence of define calls the base type of a symbol changes
\* only from integer to real (so a real one is never integer again), and it
\* is the type of the first definition of the name, or real when that first
\* type was integer and a later definition carried real
C8_BaseTypeWidens == [][BaseTypeOnlyWidens /\ WidenedWhenFirstInteger']_vars

\* C8 as worded: the final base type is real as soon as some definition
\* carried integer and a later one real, whatever the first definition was
C8_Original == [][BaseTypeOnlyWidens /\ WidenedWhenSomeInteger']_vars

C8_Witness ==
    /\ DefinedTypes(<<"a">>) = << <<"i", "n", "t", "e", "g", "e", "r">>, <<"i", "n", "t", "e", "g", "e", "r">>, <<"r", "e", "a", "l">> >>
    /\ Lookup(sema.symbol_table, <<"a">>).base_type = <<"r", "e", "a", "l">>

(***************************************************************************)
(* Properties of the semantic analysis                                     *)
(***************************************************************************)
BaseTypes == { <<"i", "n", "t", "e", "g", "e", "r">>, <<"r", "e", "a", "l">>, <<"b", "o", "o", "l", "e", "a", "n">>, <<"s", "t", "r", "i", "n", "g">> }

\* C9: after the analysis of a tree every symbol has one of the four base
\* types, also when a scalar was assigned the name of an array
C9_BaseTypes ==
    pc = "analyzed" =>
        \A i \in 1..Len(sema.symbol_table) :
            sema.symbol_table[i].base_type \in BaseTypes

\* the node is a condition that does not have the shape of a counting loop
PlainCondition(node) ==
    /\ node.type = "condition_content"
    /\ node.value \notin {NoneText, <<>>}
    /\ ~ForLoopPattern(Replace(node.value, <<"!", "=">>, <<"<", ">">>)).ok

\* the identifiers of a text that are not reserved words
FreeIdentifiers(text) ==
    LET ids == FindIdentifiers(text)
    IN  { ids[i] : i \in { k \in 1..Len(ids) : Lower(ids[k]) \notin PASCAL_KEYWORDS } }

UndeclaredUse(name) == <<"used in condition but not declared", name>>

ConditionVisit ==
    /\ pc = "analyze"
    /\ sema.todo # <<>>
    /\ PlainCondition(Head(sema.todo))

ConditionWarnsOncePerNewName ==
    LET node  == Head(sema.todo)
        new   == { v \in FreeIdentifiers(node.value) : ~Defined(sema.symbol_table, v) }
        n     == Len(sema.warnings)
        added == { i \in 1..Len(sema'.warnings) : i > n }
    IN  /\ Len(sema'.warnings) >= n
        /\ SubSeq(sema'.warnings, 1, n) = sema.warnings
        /\ \A v \in new :
              /\ Cardinality({ i \in added : sema'.warnings[i].message = UndeclaredUse(v) }) = 1
              /\ Defined(sema'.symbol_table, v)
              /\ Lookup(sema'.symbol_table, v).base_type = <<"i", "n", "t", "e", "g", "e", "r">>
        /\ \A i \in added :
              /\ \E v \in new : sema'.warnings[i].message = UndeclaredUse(v)
              /\ sema'.warnings[i].line = node.line
        /\ \A v \in FreeIdentifiers(node.value) : Defined(sema'.symbol_table, v)
        /\ sema'.errors = sema.errors

\* C10: the analysis of a condition that is not a counting loop warns
\* exactly once about each distinct identifier that is not reserved and not
\* yet in the table, however often it occurs, leaves it in the table with
\* base type integer, and warns about no identifier that was in the table
C10_ConditionWarnings == [][ConditionVisit => ConditionWarnsOncePerNewName]_vars

C10_Witness ==
    /\ pc = "analyzed"
    /\ parser.root = ProgramOf(<< ActionStmt(<<"x", " ", ":", "=", " ", "1">>, 3), IfStmt(<<"y", " ", "<", " ", "x", " ", "+", " ", "y">>, 4, <<>>) >>)
    /\ Len(sema.warnings) = 1
    /\ sema.warnings[1].message = UndeclaredUse(<<"y">>)
    /\ Lookup(sema.symbol_table, <<"y">>).base_type = <<"i", "n", "t", "e", "g", "e", "r">>

(***************************************************************************)
(* Properties of the code generation                                       *)
(***************************************************************************)
RECURSIVE NodeAt(_, _)
NodeAt(node, path) ==
    IF path = <<>> THEN node ELSE NodeAt(node.children[Head(path)], Tail(path))

Front(path) == SubSeq(path, 1, Len(path) - 1)

VisitedPaths == { gen.visited[i] : i \in 1..Len(gen.visited) }

\* the lowering of the node fails: a condition without text, an action
\* without payload
LoweringFails(node) ==
    \/ /\ node.type \in {"if_statement", "while_loop_node", "repeat_until_loop_node"}
       /\ ConditionRaises(node)
    \/ /\ node.type = "action_node"
       /\ \E i \in ChildrenOfType(node, "action_content") :
             node.children[i].value \in {NoneText, <<>>}

Markers == {"startuml_keyword", "enduml_keyword"}

\* every statement of the program was given to _visit, and so was every
\* sibling of a visited node
SiblingsLowered ==
    /\ \A k \in 1..Len(parser.root.children) :
          parser.root.children[k].type \in Markers \/ <<k>> \in VisitedPaths
    /\ \A p \in VisitedPaths :
          Len(p) > 1 =>
              \A j \in 1..Len(NodeAt(parser.root, Front(p)).children) :
                  Append(Front(p), j) \in VisitedPaths

FailuresRecorded ==
    \A p \in VisitedPaths :
        LoweringFails(NodeAt(parser.root, p)) =>
            \E i \in 1..Len(gen.errors) :
                /\ gen.errors[i].line = NodeAt(parser.root, p).line
                /\ gen.errors[i].source = "generator"

\* C6: for every root and every symbol table generate returns a text and
\* no exception leaves it; a missing root and a root that is not a program
\* are reported; a node whose lowering fails leaves a diagnostic with its
\* line, and its siblings are lowered all the same
C6_GenerateNeverRaises ==
    pc = "generated" =>
        /\ gen.exc = ""
        /\ gen.result # NoneText
        /\ (parser.root = NoneNode \/ parser.root.type # "program") => gen.errors # <<>>
        /\ (parser.root # NoneNode /\ parser.root.type = "program") =>
              /\ gen.result = <<"program">>
              /\ SiblingsLowered
              /\ FailuresRecorded

C6_Witness ==
    /\ pc = "generated"
    /\ parser.root = ProgramOf(<< IfStmt(NoneText, 3, << ActionStmt(<<"x", " ", ":", "=", " ", "1">>, 4) >>),
                                  ActionStmt(<<"x", " ", ":", "=", " ", "1">>, 4) >>)
    /\ \E i \in 1..Len(gen.errors) : gen.errors[i].line = 3
    /\ <<4>> \in VisitedPaths
    /\ \E i \in 1..Len(gen.code_lines) : gen.code_lines[i] = <<" ", " ", " ", " ", "x", " ", ":", "=", " ", "1", ";">>

HasLine(text) ==
    \E i \in 1..Len(gen.code_lines) : Lstrip(gen.code_lines[i]) = text

ForHead(m) ==
    <<"F", "O", "R", " ">> \o m.counter \o <<" ", ":", "=", " ">> \o ProcessStringLiterals(Strip(m.start)) \o <<" ">>
        \o Upper(m.direction) \o <<" ">> \o ProcessStringLiterals(Strip(m.end)) \o <<" ", "D", "O">>

WhileHead(condition) == <<"W", "H", "I", "L", "E", " ", "(">> \o condition \o <<")", " ", "D", "O">>

\* C7: a while node whose condition has the shape of a counting loop is
\* lowered to a FOR line with the captured counter, start, direction and
\* end and to no WHILE line; any other while node is lowered to a WHILE line
C7_CountingLoops ==
    (pc = "generated" /\ parser.root # NoneNode /\ parser.root.type = "program") =>
        \A k \in ChildrenOfType(parser.root, "while_loop_node") :
            LET node == parser.root.children[k]
                condition == ConditionOf(node)
                m == ForLoopPattern(condition)
            IN  ~ConditionRaises(node) =>
                    IF m.ok
                    THEN HasLine(ForHead(m)) /\ ~HasLine(WhileHead(condition))
                    ELSE HasLine(WhileHead(condition))

(***************************************************************************)
(* Properties of the pipeline                                              *)
(***************************************************************************)
Stages == <<"scan", "parse", "analyze", "generate">>

Started(stage) == \E i \in 1..Len(ran) : ran[i] = stage

\* C1: the stages start in the order scan, parse, analyze, generate; the
\* parser starts only after a scan without errors, the analyzer only after
\* a parse without diagnostics, and when the request is answered the
\* generator has run exactly when the scan, the parse and the analysis
\* recorded no error, warnings of the analysis notwithstanding
C1_StagesInOrder ==
    /\ Len(ran) <= Len(Stages) /\ ran = SubSeq(Stages, 1, Len(ran))
    /\ parser # NewParser => Started("parse")
    /\ sema # NewSema => Started("analyze")
    /\ gen # NewGen => Started("generate")
    /\ Started("parse") => lexer.errors = <<>> /\ pc \notin {"lex", "lexed"}
    /\ Started("analyze") => lexer.errors = <<>> /\ parser.errors = <<>>
    /\ Started("generate") =>
          lexer.errors = <<>> /\ parser.errors = <<>> /\ sema.errors = <<>>
    /\ pc = "done" =>
          /\ Started("generate") <=>
                (lexer.errors = <<>> /\ parser.errors = <<>> /\ sema.errors = <<>>)
          /\ Started("generate") <=> gen.result # NoneText

C1_Witness ==
    /\ pc = "done"
    /\ ran = Stages
    /\ sema.warnings # <<>>
    /\ gen.result = <<"program">>

(***************************************************************************)
(* Properties of one run of the pipeline                                   *)
(***************************************************************************)
\* the nodes of a list of trees that have the given type
RECURSIVE NodesOfType(_, _)
NodesOfType(nodes, type) ==
    IF nodes = <<>> THEN {}
    ELSE (IF Head(nodes).type = type THEN {Head(nodes)} ELSE {})
            \cup NodesOfType(Head(nodes).children, type)
            \cup NodesOfType(Tail(nodes), type)

\* the payload is no input, no output, no array assignment and no assignment
NoShape(content) ==
    /\ ~StartsWith(content, <<"Cyr_VE", "cyr_ve", "cyr_o", "cyr_de", ":">>)
    /\ ~StartsWith(content, <<"Cyr_VE", "cyr_yeru", "cyr_ve", "cyr_o", "cyr_de", ":">>)
    /\ ~ArrayAssignPattern(content).ok
    /\ ~AssignmentPattern(content).ok

\* the analyzer has run to its end
AnalysisDone == Started("analyze") /\ pc \in {"analyzed", "gen_new", "generated", "done"}

MalformedActions ==
    { n \in NodesOfType(<<parser.root>>, "action_content") :
        n.value # NoneText /\ NoShape(Strip(n.value)) }

\* C11: once the analyzer has run every action whose payload has none of
\* the four shapes has exactly one semantic error, at its position, and no
\* line of the generated text of the run is that payload as a statement
C11_MalformedAction ==
    /\ AnalysisDone =>
          \A n \in MalformedActions :
              Cardinality({ i \in 1..Len(sema.errors) :
                              /\ sema.errors[i].line = n.line
                              /\ sema.errors[i].pos = n.pos }) = 1
    /\ \A n \in MalformedActions :
          \A i \in 1..Len(gen.code_lines) :
              Lstrip(gen.code_lines[i]) # Strip(n.value) \o <<";">>

C11_Witness ==
    /\ pc = "done"
    /\ Cardinality(MalformedActions) = 2
    /\ Len(sema.errors) = 2
    /\ sema.errors[1].message = <<"invalid block content", <<"f", "o", "o">>>>
    /\ ran = <<"scan", "parse", "analyze">>

(***************************************************************************)
(* Properties of the generated text                                        *)
(***************************************************************************)
\* the generator emitted a VAR line after the program heading
HasVarBlock == Len(gen.code_lines) >= 3 /\ gen.code_lines[3] = <<"V", "A", "R">>

\* the declaration lines: those between the VAR line and the next empty one
DeclarationLines ==
    IF ~HasVarBlock THEN <<>>
    ELSE LET end == CHOOSE k \in 4..Len(gen.code_lines) :
                       /\ gen.code_lines[k] = <<>>
                       /\ \A j \in 4..(k - 1) : gen.code_lines[j] # <<>>
         IN  SubSeq(gen.code_lines, 4, end - 1)

ColonAt(line) ==
    CHOOSE i \in 1..Len(line) : line[i] = ":" /\ \A k \in 1..(i - 1) : line[k] # ":"

\* the names and the type of a line of the form 'n1, n2: type;'
DeclNames(line) == SplitCommaSpace(Slice(line, 1, ColonAt(line) - 1))

DeclType(line) == Slice(line, ColonAt(line) + 2, Len(line) - 1)

\* the symbols that qualify for a declaration
Qualifying(symbols) ==
    { i \in 1..Len(symbols) :
        symbols[i].name # NoneText /\ Lower(symbols[i].name) \notin PASCAL_KEYWORDS }

\* C12: in a generated program every symbol whose name is not reserved is
\* declared exactly once, on the line of its effective type; no reserved
\* word is declared; there is one line per effective type, the lines are in
\* the order of the type names and the names of a line are in order; and
\* there is no VAR block when no symbol qualifies
C12_Declarations ==
    (pc = "generated" /\ parser.root # NoneNode) =>
        LET symbols == sema.symbol_table
            lines == DeclarationLines
            places(name) == { <<i, j>> \in (1..Len(lines)) \X (1..Len(symbols) + 1) :
                                j <= Len(DeclNames(lines[i])) /\ DeclNames(lines[i])[j] = name }
        IN  /\ HasVarBlock <=> Qualifying(symbols) # {}
            /\ HasVarBlock => lines # <<>>
            /\ \A k \in Qualifying(symbols) :
                  /\ Cardinality(places(symbols[k].name)) = 1
                  /\ \A p \in places(symbols[k].name) :
                        DeclType(lines[p[1]]) = SymbolType(symbols[k])
            /\ \A i \in 1..Len(lines) :
                  /\ \A j \in 1..Len(DeclNames(lines[i])) :
                        /\ Lower(DeclNames(lines[i])[j]) \notin PASCAL_KEYWORDS
                        /\ \E k \in Qualifying(symbols) :
                              symbols[k].name = DeclNames(lines[i])[j]
                  /\ \A j \in 1..(Len(DeclNames(lines[i])) - 1) :
                        TextLess(DeclNames(lines[i])[j], DeclNames(lines[i])[j + 1])
                  /\ EndsWith(lines[i], <<";">>)
            /\ \A i \in 1..(Len(lines) - 1) :
                  TextLess(DeclType(lines[i]), DeclType(lines[i + 1]))
            /\ Len(lines) = Cardinality({ SymbolType(symbols[k]) : k \in Qualifying(symbols) })

C12_Witness ==
    /\ pc = "generated"
    /\ HasVarBlock
    /\ DeclarationLines = << <<"c", ",", " ", "m", ":", " ", "a", "r", "r", "a", "y", "[", "1", ".", ".", "5", "]", " ", "o", "f", " ", "r", "e", "a", "l", ";">>, <<"B", ",", " ", "a", ",", " ", "b", ":", " ", "r", "e", "a", "l", ";">>, <<"s", ":", " ", "s", "t", "r", "i", "n", "g", ";">> >>
    /\ \E i \in 1..Len(sema.symbol_table) : sema.symbol_table[i].name = <<"E", "n", "d">>

\* generate has returned
Generated == pc \in {"generated", "done"} /\ gen.result # NoneText

\* C13: when generate returns with diagnostics recorded, the text returned
\* is the program text after one summary comment that joins the messages of
\* all the diagnostics; when it returns with none, the text is the program
\* text without a summary
C13_SummaryPrefix ==
    Generated =>
        /\ gen.errors # <<>> =>
              /\ gen.result = <<"program">>
              /\ gen.summary = [i \in 1..Len(gen.errors) |-> gen.errors[i].message]
        /\ gen.errors = <<>> => (gen.result = <<"program">> /\ gen.summary = <<>>)

\* the summary is there whenever the walk of the tree was reached
C13_AfterWalk ==
    (Generated /\ gen.result = <<"program">>) =>
        gen.summary = [i \in 1..Len(gen.errors) |-> gen.errors[i].message]

(***************************************************************************)
(* Positions of diagnostics and tokens                                     *)
(***************************************************************************)
\* parse has returned
Parsed == pc = "parsed" /\ ~parser.raised

\* a diagnostic of the parser was recorded with the token stream exhausted:
\* ParseError keeps the line of the current token, which is at least 1, and
\* 0 when there is none
RecordedAtEnd(e) == e.line = 0

\* C14: every diagnostic of get_detailed_errors has the line and pos of the
\* token that was current when it was recorded, and has -1 and -1 exactly
\* when there was no current token
C14_ParserPositions ==
    Parsed => \A i \in 1..Len(parser.errors) :
        LET e == parser.errors[i]
            d == GetDetailedErrors(parser)[i]
        IN  IF RecordedAtEnd(e) THEN d.line = -1 /\ d.pos = -1
            ELSE d.line = e.line /\ d.pos = e.pos

\* the diagnostics of expect and of the unexpected token keep their position
C14_ExpectPositions ==
    Parsed => \A i \in 1..Len(parser.errors) :
        LET e == parser.errors[i]
            d == GetDetailedErrors(parser)[i]
        IN  e.fmt \in {"pos", "eof"} =>
                IF RecordedAtEnd(e) THEN d.line = -1 /\ d.pos = -1
                ELSE d.line = e.line /\ d.pos = e.pos

\* C15: every diagnostic of the generator has its line and its pos both
\* non-negative or both -1
C15_GeneratorPositions ==
    \A i \in 1..Len(gen.errors) :
        \/ gen.errors[i].line >= 0 /\ gen.errors[i].pos >= 0
        \/ gen.errors[i].line = -1 /\ gen.errors[i].pos = -1

\* no diagnostic of the generator has a position, and those recorded before
\* the walk of the tree have no line either
C15_NoPosition ==
    \A i \in 1..Len(gen.errors) : gen.errors[i].pos = -1

\* the 1-based line and column of the i-th character of a text
Coord(src, i) ==
    LET breaks == { k \in 1..(i - 1) : src[k] = "\n" }
        last   == IF breaks = {} THEN 0
                  ELSE CHOOSE k \in breaks : \A j \in breaks : j <= k
    IN  [line |-> 1 + Cardinality(breaks), pos |-> i - last]

\* the i-th character of the source is the first one of the token's lexeme
LexemeAt(L, token, i) == Lower(<<L.source[i]>>) = Lower(<<Head(token.text)>>)

\* C16: every token has the 1-based line and the 1-based position in that
\* line of the first character of its lexeme
C16_OneBased ==
    \A n \in 1..Len(lexer.lex_table) :
        LET token == lexer.lex_table[n] IN
        \E i \in 1..Len(lexer.source) :
            /\ LexemeAt(lexer, token, i)
            /\ Coord(lexer.source, i) = [line |-> token.line, pos |-> token.pos]

\* the token is the fused keyword 'repeat while'
Fused(token) == token.class = ClsKeyword /\ token.value = 12

\* up to and including the first fused keyword the line is 1-based and the
\* position is 0-based; the position of a payload token is that of the
\* character after the opening delimiter
C16_ZeroBased ==
    \A n \in 1..Len(lexer.lex_table) :
        LET token == lexer.lex_table[n] IN
        (\A k \in 1..(n - 1) : ~Fused(lexer.lex_table[k])) =>
        \E i \in 1..Len(lexer.source) :
            /\ Coord(lexer.source, i) = [line |-> token.line, pos |-> token.pos + 1]
            /\ IF token.class \in {ClsKeyword, ClsDelim}
               THEN LexemeAt(lexer, token, i)
               ELSE i > 1 /\ lexer.source[i - 1] \in {":", "("}

(***************************************************************************)
(* Interning of payloads                                                   *)
(***************************************************************************)
\* the indices of the tokens of a class, and the payload texts before one
TokensOfClass(class) ==
    { n \in 1..Len(lexer.lex_table) : lexer.lex_table[n].class = class }

PayloadsBefore(class, n) ==
    { lexer.lex_table[k].text : k \in { j \in TokensOfClass(class) : j < n } }

\* the ids of one table: equal exactly for equal texts, numbered from 1 in
\* the order of first occurrence, and the counter is one more than the
\* number of distinct texts
InternedInOrder(class, counter) ==
    /\ \A a, b \in TokensOfClass(class) :
          lexer.lex_table[a].value = lexer.lex_table[b].value
              <=> lexer.lex_table[a].text = lexer.lex_table[b].text
    /\ \A n \in TokensOfClass(class) :
          lexer.lex_table[n].text \notin PayloadsBefore(class, n) =>
              lexer.lex_table[n].value = 1 + Cardinality(PayloadsBefore(class, n))
    /\ counter = 1 + Cardinality(PayloadsBefore(class, Len(lexer.lex_table) + 1))

\* a step that changes one table leaves the other table and its counter
TablesIndependent ==
    /\ (lexer'.identifiers # lexer.identifiers \/ lexer'.id_counter # lexer.id_counter)
          => (lexer'.constants = lexer.constants
              /\ lexer'.const_counter = lexer.const_counter)
    /\ (lexer'.constants # lexer.constants \/ lexer'.const_counter # lexer.const_counter)
          => (lexer'.identifiers = lexer.identifiers
              /\ lexer'.id_counter = lexer.id_counter)

\* C17: within a scan two payload tokens of one class have the same value
\* exactly when they have the same text, the ids of each table are 1, 2, 3
\* in the order of first occurrence, each counter is one more than the
\* number of distinct payloads of its table, and interning in one table
\* changes neither the ids nor the counter of the other
C17_Interning ==
    /\ [](InternedInOrder(ClsAction, lexer.id_counter)
          /\ InternedInOrder(ClsCond, lexer.const_counter))
    /\ [][TablesIndependent]_vars

C17_Witness ==
    /\ lexer.current_char = NUL
    /\ lexer.identifiers = << <<<<"a">>, 1>>, <<<<"a", "x", "9">>, 2>> >>
    /\ lexer.id_counter = 3
    /\ lexer.const_counter = 1
    /\ \E n \in TokensOfClass(ClsAction) : lexer.lex_table[n].value = 2

\* the same payload twice, and one payload in the other table
C17_SamePayload ==
    /\ Cardinality(TokensOfClass(ClsAction)) = 2
    /\ lexer.id_counter = 2
    /\ lexer.const_counter = 2

(***************************************************************************)
(* The lookahead after 'repeat'                                            *)
(***************************************************************************)
\* the first index from i on that holds no whitespace, and the first one
\* that holds no character of a word (the text ends with the sentinel,
\* which is neither)
SpaceEnd(src, i) ==
    CHOOSE j \in i..Len(src) : ~IsSpace(src[j]) /\ \A k \in i..(j - 1) : IsSpace(src[k])

WordEnd(src, i) ==
    CHOOSE j \in i..Len(src) :
        ~IsWordChar(src[j]) /\ \A k \in i..(j - 1) : IsWordChar(src[k])

\* the next lexeme of the scanner is the word 'repeat', whitespace follows
\* it, and the word after the whitespace is not 'while' (in any case of the
\* letters, as keywords are compared)
FailedLookahead(L) ==
    LET s == SpaceEnd(L.source, L.position + 1)
        e == WordEnd(L.source, s)
        n == SpaceEnd(L.source, e)
    IN  /\ Lower(Slice(L.source, s, e - 1)) = <<"r", "e", "p", "e", "a", "t">>
        /\ n > e
        /\ Lower(Slice(L.source, n, WordEnd(L.source, n) - 1)) # <<"w", "h", "i", "l", "e">>

\* the scanner after the word and the whitespace that follows it, when no
\* lookahead is made: the word is read, then the main loop skips whitespace
AfterWordAndSpace(L) == SkipWhitespace(CollectWord(SkipWhitespace(L), <<>>).lex)

RECURSIVE ScanAll(_)
ScanAll(L) == IF L.current_char = NUL THEN L ELSE ScanAll(ScanIteration(L))

\* parse_program from its statement loop to its end, on the token sequence
\* of the scanner
RECURSIVE ParseLoop(_)
ParseLoop(P) ==
    IF P.stack = <<>> THEN P
    ELSE IF ~LoopOver(P) THEN ParseLoop(StatementStep(P))
    ELSE LET f == TopFrame(P) IN
         IF f.rule = "program" THEN ProgramAfterBody(P)
         ELSE IF f.rule = "if" /\ f.phase = "then" THEN ParseLoop(IfAfterThen(P))
         ELSE IF f.rule = "if" THEN ParseLoop(IfAfterElse(P))
         ELSE IF f.rule = "while" THEN ParseLoop(WhileAfterBody(P))
         ELSE ParseLoop(RepeatAfterBody(P))

\* parse() called on a parser
ParseAll(P) == ParseLoop(ProgramHeader(P))

\* the text a scanner was built on (the sentinel removed)
SourceText(L) == Slice(L.source, 1, Len(L.source) - 1)

NoSpace(s) == SelectSeq(s, LAMBDA c : ~IsSpace(c))

\* the lexemes of the tokens, one after the other
TokenTexts(L) == Concat([n \in 1..Len(L.lex_table) |-> L.lex_table[n].text])

\* the characters of the text that are no whitespace are those of the
\* lexemes, in order, each once (letters compared without regard to case,
\* as the fused keyword is written 'repeat while' whatever the text holds)
Covered(L) == Lower(NoSpace(SourceText(L))) = Lower(NoSpace(TokenTexts(L)))

\* C21: when scan reports success, every character of the text that is no
\* whitespace belongs to the lexeme of exactly one token
C21_Coverage ==
    (pc = "lexed" /\ LexerSuccess(lexer)) => Covered(lexer)

\* a text that holds the sentinel character was scanned with success
C21_SentinelInText ==
    /\ pc = "lexed"
    /\ LexerSuccess(lexer)
    /\ \E i \in 1..(Len(lexer.source) - 1) : lexer.source[i] = NUL

\* coverage holds when the text does not hold the sentinel character
C21_CoverageOfPlainText ==
    (pc = "lexed" /\ LexerSuccess(lexer)
        /\ \A i \in 1..(Len(lexer.source) - 1) : lexer.source[i] # NUL)
            => Covered(lexer)

(***************************************************************************)
(* Tokens skipped by the statement loop of the program                     *)
(***************************************************************************)
\* the statement loop of the program is about to parse a statement and no
\* statement can be parsed at the current token
ProgramSkips(P) ==
    /\ ~LoopOver(P)
    /\ TopFrame(P).rule = "program"
    /\ ParseStatement(P).kind = "none"

\* an 'unexpected token' diagnostic for the token was added by the step
UnexpectedRecorded(P, Q, token) ==
    /\ Len(Q.errors) = Len(P.errors) + 1
    /\ Q.errors[Len(Q.errors)].message = "unexpected token"
    /\ Q.errors[Len(Q.errors)].line = token.line
    /\ Q.errors[Len(Q.errors)].pos = token.pos

\* C22: whenever the statement loop of the program advances past a token at
\* which no statement could be parsed, an 'unexpected token' diagnostic was
\* recorded for that token
C22_SkippedTokenRecorded ==
    [][(pc = "parse" /\ ProgramSkips(parser) /\ parser'.position > parser.position)
          => UnexpectedRecorded(parser, parser', CurrentToken(parser))]_vars

\* it holds for every token but 'endif' and 'endwhile'
C22_OtherTokens ==
    [][(pc = "parse" /\ ProgramSkips(parser) /\ parser'.position > parser.position
        /\ ~Match(parser, ClsKeyword, 7) /\ ~Match(parser, ClsKeyword, 10))
          => UnexpectedRecorded(parser, parser', CurrentToken(parser))]_vars

\* a program with a stray 'endif' among its statements was parsed with success
C22_StrayAccepted ==
    /\ pc = "parsed"
    /\ ParserSuccess(parser)
    /\ \E i \in 1..Len(Toks) : Toks[i].class = ClsKeyword /\ Toks[i].value = 7
    /\ \A i \in 1..Len(Toks) : ~(Toks[i].class = ClsKeyword /\ Toks[i].value = 4)

(***************************************************************************)
(* Agreement of the analyzer and the generator on action payloads          *)
(***************************************************************************)
\* the form the analyzer takes a payload for (_analyze_action_content)
SemaForm(content) ==
    LET s == Strip(content) IN
    IF StartsWith(s, <<"Cyr_VE", "cyr_ve", "cyr_o", "cyr_de", ":">>) THEN "input"
    ELSE IF StartsWith(s, <<"Cyr_VE", "cyr_yeru", "cyr_ve", "cyr_o", "cyr_de", ":">>) THEN "output"
    ELSE IF ArrayAssignPattern(s).ok \/ AssignmentPattern(s).ok THEN "assignment"
    ELSE "other"

\* the form the generator takes a payload for (_generate_action)
GenForm(content) ==
    LET s == Replace(Strip(content), <<"!", "=">>, <<"<", ">">>) IN
    IF StartsWith(s, <<"Cyr_VE", "cyr_ve", "cyr_o", "cyr_de", ":">>) THEN "input"
    ELSE IF StartsWith(s, <<"Cyr_VE", "cyr_yeru", "cyr_ve", "cyr_o", "cyr_de", ":">>) THEN "output"
    ELSE IF AssignmentPattern(s).ok THEN "assignment"
    ELSE "other"

\* the text holds the operator ':='
HasAssignOp(line) ==
    \E i \in 1..(Len(line) - 1) : line[i] = ":" /\ line[i + 1] = "="

\* the action payloads of the tree
ActionPayloads ==
    { n.value : n \in { m \in NodesOfType(<<parser.root>>, "action_content") :
                          m.value # NoneText } }

\* the lines the generator emits for a payload
LoweredAction(content) == GenerateAction(NewGen, content, 0).code_lines

\* the generator has run on the tree
Lowered == pc \in {"generated", "done"} /\ Started("generate")

\* C23: every payload the analyzer takes for an assignment is lowered to a
\* statement with the operator ':=', and the generator takes every payload
\* for the same form as the analyzer
C23_SameForms ==
    Lowered => \A content \in ActionPayloads :
        /\ SemaForm(content) = GenForm(content)
        /\ SemaForm(content) = "assignment" =>
              /\ Len(LoweredAction(content)) = 1
              /\ HasAssignOp(LoweredAction(content)[1])
              /\ HasLine(LoweredAction(content)[1])

\* scalar assignments are lowered with ':=', and inputs, outputs and scalar
\* assignments are taken for the same form by both
C23_ScalarForms ==
    Lowered => \A content \in ActionPayloads :
        ~ArrayAssignPattern(Strip(content)).ok =>
            /\ SemaForm(content) = GenForm(content)
            /\ SemaForm(content) = "assignment" =>
                  /\ Len(LoweredAction(content)) = 1
                  /\ HasAssignOp(LoweredAction(content)[1])
                  /\ HasLine(LoweredAction(content)[1])

\* an array assignment written with '=' was copied as it is
C23_ArrayCopied ==
    /\ Lowered
    /\ <<"a", "[", "1", "]", " ", "=", " ", "5">> \in ActionPayloads
    /\ HasLine(<<"a", "[", "1", "]", " ", "=", " ", "5", ";">>)

(***************************************************************************)
(* Agreement of the analyzer and the generator on counting loops           *)
(***************************************************************************)
\* the statements of the program that own a condition, by index
ConditionOwners ==
    { k \in 1..Len(parser.root.children) :
        parser.root.children[k].type
            \in {"if_statement", "while_loop_node", "repeat_until_loop_node"} }

\* the analyzer took the condition for a counting loop: it has the shape,
\* its counter is a declared integer and no warning was given for it
AnalyzedAsCounting(node) ==
    LET m == ForLoopPattern(ConditionOf(node)) IN
    /\ m.ok
    /\ \E i \in 1..Len(sema.symbol_table) :
          /\ sema.symbol_table[i].name = m.counter
          /\ sema.symbol_table[i].base_type = <<"i", "n", "t", "e", "g", "e", "r">>
          /\ sema.symbol_table[i].declared
    /\ \A i \in 1..Len(sema.warnings) :
          LET c == node.children[LastOf(ChildrenOfType(node, "condition_content"))] IN
          sema.warnings[i].line # c.line \/ sema.warnings[i].pos # c.pos

\* the generator lowered the statement to a bounded FOR loop
LoweredToFor(node) ==
    LET m == ForLoopPattern(ConditionOf(node)) IN
    m.ok /\ HasLine(ForHead(m))

\* C24: a condition is analyzed as a counting loop exactly when the
\* generator lowers the statement that owns it to a FOR loop, be the owner
\* an if statement, a while loop or a repeat loop
C24_CountingAgreed ==
    Lowered => \A k \in ConditionOwners :
        AnalyzedAsCounting(parser.root.children[k])
            <=> LoweredToFor(parser.root.children[k])

\* the two agree on the while loops that have a body
C24_WhileWithBody ==
    Lowered => \A k \in ConditionOwners :
        LET node == parser.root.children[k] IN
        (node.type = "while_loop_node" /\ ChildrenOfType(node, "while_body") # {})
            => (AnalyzedAsCounting(node) <=> LoweredToFor(node))

\* an if statement with the condition of a counting loop was lowered to IF
C24_IfNotFor ==
    /\ Lowered
    /\ \E k \in ConditionOwners :
          /\ parser.root.children[k].type = "if_statement"
          /\ AnalyzedAsCounting(parser.root.children[k])
    /\ HasLine(<<"I", "F", " ", "(", "i", " ", ":", "=", " ", "1", " ", "t", "o", " ", "n", ")", " ", "T", "H", "E", "N">>)

(***************************************************************************)
(* Recovery after an unexpected character                                  *)
(***************************************************************************)
\* the characters at which the skip of a lexical error ends
EndsSkip(c) == IsSpace(c) \/ c \in ErrorStop \/ c = NUL

\* the first index from i on that holds such a character (the sentinel is one)
SkipEnd(src, i) ==
    CHOOSE j \in i..Len(src) : EndsSkip(src[j]) /\ \A k \in i..(j - 1) : ~EndsSkip(src[k])

\* the index of the next character that is no whitespace, and whether no
\* branch of scan takes it
Offending(L) == SpaceEnd(L.source, L.position + 1)

Unexpected(L) ==
    LET c == L.source[Offending(L)] IN
    c # NUL /\ ~IsAlpha(c) /\ c \notin {"@", ":", "(", ";"}

\* C25: after an 'unexpected character' error the scanner stands at the
\* first whitespace, delimiter or '@' that follows the offending character,
\* which is therefore still scanned
C25_ResumeAtStop ==
    [][(pc = "lex" /\ lexer.current_char # NUL /\ Unexpected(lexer)) =>
          LET r == SkipEnd(lexer.source, Offending(lexer) + 1) IN
          /\ Len(lexer'.errors) = Len(lexer.errors) + 1
          /\ lexer'.position = r - 1
          /\ lexer'.current_char = lexer.source[r]]_vars

\* the scanner stands one character after the character that ended the
\* skip, which starts at the offending character itself
C25_ResumeAfterStop ==
    [][(pc = "lex" /\ lexer.current_char # NUL /\ Unexpected(lexer)) =>
          LET q == SkipEnd(lexer.source, Offending(lexer)) IN
          /\ Len(lexer'.errors) = Len(lexer.errors) + 1
          /\ lexer'.position = q
          /\ lexer'.lex_table = lexer.lex_table]_vars

\* '#;' was scanned to its end and gave no token
C25_SemicolonLost ==
    /\ pc = "lexed"
    /\ lexer.source = <<"#", ";">> \o <<NUL>>
    /\ lexer.lex_table = <<>>
    /\ Len(lexer.errors) = 1

(***************************************************************************)
(* A while loop as the first statement of a repeat loop                    *)
(***************************************************************************)
\* the text is 'repeat', a newline, a while loop, actions, 'repeat while'
RepeatBeginsWithWhile(L) ==
    \E fs \in SeqsUpTo({NestAction}, MaxNestFrags - 3) :
        SourceText(L) = NestProgram(<<NestRepeat, NestWhile>> \o fs \o <<NestUntil>>)

\* a repeat loop of the tree whose body holds a while loop
NestedLoops(root) ==
    { r \in NodesOfType(<<root>>, "repeat_until_loop_node") :
        \E i \in 1..Len(r.children) :
            /\ r.children[i].type = "repeat_body"
            /\ \E j \in 1..Len(r.children[i].children) :
                   r.children[i].children[j].type = "while_loop_node" }

\* C26: a repeat loop whose body begins with a while loop is scanned and
\* parsed without any diagnostic into a repeat-until node whose body holds
\* a while-loop node
C26_WhileFirstInRepeat ==
    (pc = "parsed" /\ RepeatBeginsWithWhile(lexer)) =>
        /\ lexer.errors = <<>>
        /\ parser.errors = <<>>
        /\ NestedLoops(parser.root) # {}

\* the same holds when the while loop is not the first statement of the body
C26_WhileLaterInRepeat ==
    (pc = "parsed" /\ ~parser.raised
        /\ SourceText(lexer) = NestProgram(<<NestRepeat, NestAction, NestWhile, NestUntil>>)) =>
        /\ lexer.errors = <<>>
        /\ parser.errors = <<>>
        /\ NestedLoops(parser.root) # {}

\* 'repeat', a newline and 'while' were scanned as the one keyword that ends
\* a repeat loop, and the parse of the program gave diagnostics
C26_FusedAtBodyStart ==
    /\ pc = "parsed"
    /\ RepeatBeginsWithWhile(lexer)
    /\ Fused(lexer.lex_table[3])
    /\ parser.errors # <<>>

(***************************************************************************)
(* Tokens after '@enduml'                                                  *)
(***************************************************************************)
ParseSucceeded == pc = "parsed" /\ ~parser.raised /\ ParserSuccess(parser)

IsEnduml(token) == token.class = ClsKeyword /\ token.value = 13

\* C27: when parse() returns success the position of the parser is the
\* length of the token sequence: no token remains after '@enduml'
C27_AllConsumed ==
    ParseSucceeded => parser.position = Len(lexer.lex_table)

\* when parse() returns success the last token consumed is the first
\* '@enduml' of the sequence; what follows it was not looked at
C27_ConsumedUpToEnduml ==
    ParseSucceeded =>
        /\ parser.position \in 1..Len(lexer.lex_table)
        /\ IsEnduml(lexer.lex_table[parser.position])
        /\ \A i \in 1..(parser.position - 1) : ~IsEnduml(lexer.lex_table[i])

\* parse() returned success with a token left after '@enduml'
C27_TokenLeft ==
    /\ ParseSucceeded
    /\ parser.position < Len(lexer.lex_table)
    /\ parser.root.type = "program"

(***************************************************************************)
(* Line and position after the keyword 'repeat while'                      *)
(***************************************************************************)
\* the number of newlines among the characters i..j of a text
Newlines(src, i, j) == Cardinality({ k \in i..j : src[k] = "\n" })

FusedTokens(L) == { k \in 1..Len(L.lex_table) : Fused(L.lex_table[k]) }

\* the first fused keyword of the scan and the index of the first character
\* of its lexeme (its line and position are those of that character, the
\* position counted from 0)
FirstFused(L) ==
    L.lex_table[CHOOSE k \in FusedTokens(L) : \A j \in FusedTokens(L) : k <= j]

FusedStart(L) ==
    CHOOSE i \in 1..Len(L.source) :
        Coord(L.source, i) = [line |-> FirstFused(L).line, pos |-> FirstFused(L).pos + 1]

\* a pass of the main loop that adds a token
TokenAdded == pc = "lex" /\ Len(lexer'.lex_table) > Len(lexer.lex_table)

\* C28: the token scanned after a fused 'repeat while' has the line of the
\* fused token plus the number of newlines between the starts of the two
\* lexemes, and when both start on one line their positions differ by as
\* much as the indices of their first characters
C28_ConsistentAfterFused ==
    [][(TokenAdded /\ FusedTokens(lexer) # {}) =>
          LET token == lexer'.lex_table[Len(lexer.lex_table) + 1]
              first == FirstFused(lexer)
              o     == FusedStart(lexer)
              s     == Offending(lexer)
          IN  /\ token.line = first.line + Newlines(lexer.source, o, s - 1)
              /\ Newlines(lexer.source, o, s - 1) = 0 =>
                     token.pos - first.pos = s - o]_vars

\* the pass that fuses the first 'repeat while' leaves the counters of the
\* scanner ahead of the text by the whitespace between the two words: the
\* line by its newlines, and the position by its length when it holds none
C28_WhitespaceCountedTwice ==
    [][(TokenAdded /\ FusedTokens(lexer) = {} /\ FusedTokens(lexer') # {}) =>
          LET s  == Offending(lexer)
              e  == lexer'.position
              nl == Newlines(lexer.source, s + 6, e - 5)
          IN  /\ lexer'.line_num = Coord(lexer.source, e + 1).line + nl
              /\ nl = 0 => lexer'.char_pos = (Coord(lexer.source, e + 1).pos - 1) + (e - s - 10)
              /\ FirstFused(lexer').line = Coord(lexer.source, s).line
              /\ FirstFused(lexer').pos = Coord(lexer.source, s).pos - 1]_vars

\* '(' stands 13 characters after the start of 'repeat while' on the same
\* line and has a position 14 greater
C28_Drifted ==
    /\ pc = "lexed"
    /\ \E k \in 1..(Len(lexer.lex_table) - 1) :
          /\ Fused(lexer.lex_table[k])
          /\ lexer.lex_table[k + 1].text = <<"(">>
          /\ lexer.lex_table[k + 1].line = lexer.lex_table[k].line
          /\ lexer.lex_table[k + 1].pos = lexer.lex_table[k].pos + 14

(***************************************************************************)
(* Diagnostics of the generator on programs the earlier stages accept      *)
(***************************************************************************)
\* the loops of the program that have no body, and its input actions that
\* name no variable
HasChildOfType(node, type) ==
    \E i \in 1..Len(node.children) : node.children[i].type = type

EmptyLoops ==
    { n \in NodesOfType(<<parser.root>>, "while_loop_node") : ~HasChildOfType(n, "while_body") }
        \cup { n \in NodesOfType(<<parser.root>>, "repeat_until_loop_node") :
                 ~HasChildOfType(n, "repeat_body") }

EmptyInputs ==
    { m \in NodesOfType(<<parser.root>>, "action_content") :
        m.value # NoneText /\ Strip(m.value) = <<"Cyr_VE", "cyr_ve", "cyr_o", "cyr_de", ":">> }

\* C29: when the scan and the parse gave no diagnostic and the analysis no
\* error, generate() records no diagnostic, also for a loop with an empty
\* body and for an input action with an empty list of variables
C29_NoGeneratorDiagnostic ==
    (Lowered /\ sema.errors = <<>>) => gen.errors = <<>>

\* generate() records no diagnostic when no loop is empty and no input
\* action lacks its variables
C29_NoDiagnosticOtherwise ==
    (Lowered /\ sema.errors = <<>> /\ EmptyLoops = {} /\ EmptyInputs = {}) =>
        gen.errors = <<>>

\* and it records one for each of them
C29_DiagnosticForEach ==
    (Lowered /\ sema.errors = <<>>) =>
        Len(gen.errors) = Cardinality(EmptyLoops) + Cardinality(EmptyInputs)

\* the generator has recorded a diagnostic for a loop without body in a
\* program that the analyzer accepted
C29_EmptyLoopRejected ==
    /\ Lowered
    /\ sema.errors = <<>>
    /\ EmptyLoops # {}
    /\ gen.errors # <<>>

(***************************************************************************)
(* Words inside the string literal of an assignment                        *)
(***************************************************************************)
Elems(seq) == { seq[i] : i \in 1..Len(seq) }

\* the payload is a scalar assignment whose right-hand side is one quoted
\* string literal
QuotedAssignment(content) ==
    LET s == Strip(content) IN
    /\ ~ArrayAssignPattern(s).ok
    /\ AssignmentPattern(s).ok
    /\ MatchesQuoted(Strip(AssignmentPattern(s).value))

AssignedName(content) == AssignmentPattern(Strip(content)).name

\* the words between the quotes, other than the assigned name, that stand
\* in no other payload and in no condition of the program
ConditionTexts ==
    { n.value : n \in { m \in NodesOfType(<<parser.root>>, "condition_content") :
                          m.value # NoneText } }

WordsInLiteral(content) ==
    { w \in Elems(FindIdentifiers(Strip(AssignmentPattern(Strip(content)).value))) :
        /\ w # AssignedName(content)
        /\ \A c \in (ActionPayloads \cup ConditionTexts) \ {content} :
               w \notin Elems(FindIdentifiers(c)) }

Warned(w) ==
    \E i \in 1..Len(sema.warnings) :
        Len(sema.warnings[i].message) = 2 /\ sema.warnings[i].message[2] = w

InVarBlock(w) ==
    \E k \in 1..Len(DeclarationLines) : w \in Elems(DeclNames(DeclarationLines[k]))

\* C30: a scalar assignment whose right-hand side is a quoted string
\* literal declares the assigned name only: the words between the quotes
\* are not added to the symbol table, give no warning and are not in the
\* VAR block
C30_LiteralWordsIgnored ==
    Lowered => \A content \in ActionPayloads :
        QuotedAssignment(content) =>
            \A w \in WordsInLiteral(content) :
                /\ ~Defined(sema.symbol_table, w)
                /\ ~Warned(w)
                /\ ~InVarBlock(w)

\* the assigned name is declared with the type string and stands in the
\* VAR block, and every word of the literal is in the table, not declared,
\* with a warning
C30_LiteralWordsDefined ==
    Lowered => \A content \in ActionPayloads :
        QuotedAssignment(content) =>
            /\ Defined(sema.symbol_table, AssignedName(content))
            /\ Lookup(sema.symbol_table, AssignedName(content)).declared
            /\ InVarBlock(AssignedName(content))
            /\ \A w \in WordsInLiteral(content) :
                  /\ Defined(sema.symbol_table, w)
                  /\ ~Lookup(sema.symbol_table, w).declared
                  /\ Warned(w)

\* the words of "two words" are declared in the VAR block of the program
C30_WordsDeclared ==
    /\ Lowered
    /\ <<"s", " ", ":", "=", " ", "\"", "t", "w", "o", " ", "w", "o", "r", "d", "s", "\"">> \in ActionPayloads
    /\ InVarBlock(<<"t", "w", "o">>) /\ InVarBlock(<<"w", "o", "r", "d", "s">>)
    /\ InVarBlock(<<"s">>)

====
